---- MODULE Spec2Model ----
(***************************************************************************)
(* lightshowpi: the song pipeline of py/synchronized_lights.py             *)
(* (play_song, cache_song, load_cached_fft, stream_music) together with    *)
(* the configuration sidecar of py/fft.py (compare_config, save_config).   *)
(*                                                                         *)
(* Two processes are modelled: the foreground play_song and the pool       *)
(* worker that runs cache_song.  The song's two sidecar files (.sync and   *)
(* .cfg) and the persisted play_now state outlive one invocation of the    *)
(* script; NextRun starts the next invocation on the same disk.            *)
(***************************************************************************)
EXTENDS Integers, Sequences, FiniteSets, TLC

\* ------------------------------------------------------------------ bounds
\* Longest song, in chunks of CHUNK_SIZE frames.
MaxChunks == 2
\* Invocations of the script on the same disk.
MaxRuns == 2
\* Wall-clock ticks of time.time() within one invocation.
MaxTime == 1
\* Largest light_delay (seconds) of the configuration.
MaxDelay == 1
\* Calls of cleanup() on one audio sink.
MaxCleanups == 3
\* Chunks written to one audio sink.
MaxWrites == 2

\* hardware_controller.GPIOLEN: the number of configured channels.
GPIOLEN == 2

Pins == 1..GPIOLEN

\* ------------------------------------------------------------ Python values
\* custom_channel_mapping / custom_channel_frequencies are "list | int":
\* the integer 0 when unset, a list of integers otherwise.  A Python int n
\* is PyInt(n), a list is PyList(s); an int never equals a list.
PyInt(n) == [list |-> FALSE, v |-> <<n>>]

PyList(s) == [list |-> TRUE, v |-> s]

\* A float vector entry is an exact fraction <<numerator, denominator>>;
\* denominator 0 is NaN (numpy's mean/std of an empty list).
NaN == <<0, 0>>

Num(n) == <<n, 1>>

RECURSIVE SumSeq(_)
SumSeq(s) == IF s = <<>> THEN 0 ELSE Head(s) + SumSeq(Tail(s))

RECURSIVE SelectPositive(_)
SelectPositive(s) ==
    IF s = <<>> THEN <<>>
    ELSE IF Head(s) > 0 THEN <<Head(s)>> \o SelectPositive(Tail(s))
    ELSE SelectPositive(Tail(s))

\* ----------------------------------------------------- the analysis config
CfgFields == {"chunk_size", "sample_rate", "num_bins", "min_frequency",
              "max_frequency", "custom_channel_mapping",
              "custom_channel_frequencies", "input_channels"}

\* The FFT object's configuration as FFT.__init__ stores it (input_channels
\* keeps its default, 2: cache_song does not pass it).
FFT(chunk_size, sample_rate, num_bins, min_f, max_f, mapping, freqs) ==
    [chunk_size |-> chunk_size,
     sample_rate |-> sample_rate,
     num_bins |-> num_bins,
     min_frequency |-> min_f,
     max_frequency |-> max_f,
     custom_channel_mapping |-> mapping,
     custom_channel_frequencies |-> freqs,
     input_channels |-> 2]

\* ------------------------------------------------------- text of the .cfg
\* The text of one option is the sequence of its comma separated pieces; a
\* piece is <<n>> when int()/float() reads it as n and <<>> when it is the
\* empty string, which int() rejects with ValueError.  The model's
\* frequencies are whole numbers, which str() and float() carry exactly.
Str(n) == << <<n>> >>

\* The text left of a decimal number after its first character is cut off:
\* nothing of a one-character number, the digits after the leading one (or
\* after the sign) otherwise.
DropFirstChar(n) ==
    IF n < 0 THEN <<0 - n>>
    ELSE IF n < 10 THEN <<>>
    ELSE IF n < 100 THEN <<n % 10>>
    ELSE IF n < 1000 THEN <<n % 100>>
    ELSE <<n % 1000>>

\* str(list)[1:-1]: the brackets are cut off, the items stay.
StrListInner(s) ==
    IF s = <<>> THEN << <<>> >> ELSE [i \in 1..Len(s) |-> <<s[i]>>]

\* str(list)[2:-1]: the opening bracket and the character after it are cut off.
StrListInnerFrom2(s) ==
    IF s = <<>> THEN << <<>> >>
    ELSE [i \in 1..Len(s) |-> IF i = 1 THEN DropFirstChar(s[1]) ELSE <<s[i]>>]

SaveMapping(val) == IF val.list THEN StrListInner(val.v) ELSE Str(val.v[1])

SaveFrequencies(val) ==
    IF val.list THEN StrListInnerFrom2(val.v) ELSE Str(val.v[1])

\* No .cfg beside the song: os.path.isfile is false (the text is not read).
NoCfgFile ==
    [exists |-> FALSE, options |-> {},
     text |-> [chunk_size |-> <<>>, sample_rate |-> <<>>, num_bins |-> <<>>,
               min_frequency |-> <<>>, max_frequency |-> <<>>,
               custom_channel_mapping |-> <<>>,
               custom_channel_frequencies |-> <<>>, input_channels |-> <<>>]]

\* FFT.save_config: every option of section "fft" written from the object.
SaveConfigText(fft) ==
    [chunk_size |-> Str(fft.chunk_size),
     sample_rate |-> Str(fft.sample_rate),
     num_bins |-> Str(fft.num_bins),
     min_frequency |-> Str(fft.min_frequency),
     max_frequency |-> Str(fft.max_frequency),
     custom_channel_mapping |-> SaveMapping(fft.custom_channel_mapping),
     custom_channel_frequencies |->
         SaveFrequencies(fft.custom_channel_frequencies),
     input_channels |-> Str(fft.input_channels)]

save_config(fft) ==
    [exists |-> TRUE, options |-> CfgFields, text |-> SaveConfigText(fft)]

\* [int(channel) for channel in text.split(',')] raises ValueError on a
\* piece int() cannot read.
ListUnreadable(pieces) == \E i \in 1..Len(pieces) : pieces[i] = <<>>

\* temp[0] when the option held one number, the list otherwise.
ParseList(pieces) ==
    IF Len(pieces) = 1 THEN PyInt(pieces[1][1])
    ELSE PyList([i \in 1..Len(pieces) |-> pieces[i][1]])

\* compare_config ends in an uncaught ValueError: only ConfigParser.Error
\* is handled.
compare_config_raises(fft, file) ==
    /\ file.exists
    /\ {"chunk_size", "sample_rate", "num_bins", "min_frequency",
        "max_frequency"} \subseteq file.options
    /\ \/ /\ "custom_channel_mapping" \in file.options
          /\ ListUnreadable(file.text.custom_channel_mapping)
       \/ /\ {"custom_channel_mapping", "custom_channel_frequencies"}
                 \subseteq file.options
          /\ ListUnreadable(file.text.custom_channel_frequencies)

\* The dictionary compare_config reads from the file (fft_cache), given
\* that every option is there and readable.
FftCache(file) ==
    [chunk_size |-> file.text.chunk_size[1][1],
     sample_rate |-> file.text.sample_rate[1][1],
     num_bins |-> file.text.num_bins[1][1],
     min_frequency |-> file.text.min_frequency[1][1],
     max_frequency |-> file.text.max_frequency[1][1],
     custom_channel_mapping |-> ParseList(file.text.custom_channel_mapping),
     custom_channel_frequencies |->
         ParseList(file.text.custom_channel_frequencies),
     input_channels |-> file.text.input_channels[1][1]]

\* Mutant of compare_config: input_channels is left out of the comparison.
compare_config_without_input_channels(fft, file) ==
    /\ file.exists
    /\ file.options = CfgFields
    /\ ~compare_config_raises(fft, file)
    /\ [FftCache(file) EXCEPT !.input_channels = fft.input_channels] = fft

\* FFT.compare_config, when it returns: False without a sidecar, False when
\* an option is missing (ConfigParser.Error), else fft_cache == fft_current.
compare_config(fft, file) ==
    /\ file.exists
    /\ file.options = CfgFields
    /\ ~compare_config_raises(fft, file)
    /\ FftCache(file) = fft

\* --------------------------------------------------------- level analysis
\* The sum of the power spectrum of chunk k over the bins of channel pin
\* (FFT.calculate_levels up to the band sums): a fixed table standing for
\* the song's audio, which depends on the chunk, the channel and the
\* analysis configuration.
BandPower(fft, k, pin) ==
    <<0, 1, 10, 100>>[((k + pin + (fft.chunk_size \div 1024)) % 4) + 1]

Log10(x) == CASE x = 1 -> 0 [] x = 10 -> 1 [] x = 100 -> 2

\* Mutant of Levels: log10 of every band sum, -inf for a zero sum.
LevelsLogOfAll(sums) ==
    [i \in DOMAIN sums |->
        IF sums[i] > 0 THEN Num(Log10(sums[i])) ELSE <<0 - 1, 0>>]

\* Lines 135-141 of FFT.calculate_levels: the band sums unchanged when all
\* are zero, else log10 of every positive band sum and 0 for the others.
Levels(sums) ==
    IF \A i \in DOMAIN sums : sums[i] = 0
    THEN [i \in DOMAIN sums |-> Num(0)]
    ELSE [i \in DOMAIN sums |->
             IF sums[i] > 0 THEN Num(Log10(sums[i])) ELSE Num(0)]

\* FFT.calculate_levels on chunk k of the song.
calculate_levels(fft, k) == Levels([pin \in Pins |-> BandPower(fft, k, pin)])

\* [item for item in cache_matrix[:, i] if item > 0] (level rows hold whole
\* numbers here).
PositiveColumn(matrix, i) ==
    SelectPositive([r \in 1..Len(matrix) |-> matrix[r][i][1]])

\* np.mean of the list: sum / n, NaN for the empty list.
NpMean(items) ==
    IF items = <<>> THEN NaN ELSE <<SumSeq(items), Len(items)>>

\* The root of a square: the deviations met here are rational.
Sqrt(n) == CHOOSE r \in 0..n : r * r = n

\* np.std of the list, the root of the variance
\* (n * sum(x^2) - sum(x)^2) / n^2; NaN for the empty list.
NpStd(items) ==
    IF items = <<>> THEN NaN
    ELSE <<Sqrt(Len(items) * SumSeq([j \in 1..Len(items) |->
                                        items[j] * items[j]])
                - SumSeq(items) * SumSeq(items)),
           Len(items)>>

ColumnMeans(matrix) == [i \in Pins |-> NpMean(PositiveColumn(matrix, i))]

ColumnStds(matrix) == [i \in Pins |-> NpStd(PositiveColumn(matrix, i))]

\* Mutant of WithSummaryRows: the two summary rows are stacked in the other
\* order.
SummaryRowsMeanFirst(mean, std, matrix) == <<mean, std>> \o matrix

\* np.vstack([std, np.vstack([mean, cache_matrix])]).
WithSummaryRows(mean, std, matrix) == <<std, mean>> \o matrix

\* ------------------------------------------------------ text of the .sync
\* np.savetxt writes each value with "%.18e": 19 significant digits, which
\* carry a float64 (17 digits) exactly; np.loadtxt reads it back with float().
FormatE18(x) == [e18 |-> x]

ParseFloat(t) == t.e18

NoSyncFile == [exists |-> FALSE, rows |-> <<>>]

\* Mutant of savetxt: the first row is not written.
savetxt_without_first_row(matrix) ==
    [exists |-> TRUE,
     rows |-> [r \in 1..(Len(matrix) - 1) |->
                  [c \in 1..Len(matrix[r + 1]) |-> [e18 |-> matrix[r + 1][c]]]]]

\* np.savetxt(cache_filename, cache_matrix): one line per row, in row order.
savetxt(matrix) ==
    [exists |-> TRUE,
     rows |-> [r \in 1..Len(matrix) |->
                  [c \in 1..Len(matrix[r]) |-> FormatE18(matrix[r][c])]]]

\* np.loadtxt(cache_filename) of a file that is there.
loadtxt(file) ==
    [r \in 1..Len(file.rows) |->
        [c \in 1..Len(file.rows[r]) |-> ParseFloat(file.rows[r][c])]]

\* load_cached_fft after a successful read: std is row 0, mean row 1, and
\* np.delete(.., 0, axis=0) twice leaves the level rows.
CachedStd(matrix) == matrix[1]

CachedMean(matrix) == matrix[2]

CachedLevels(matrix) == SubSeq(matrix, 3, Len(matrix))

\* ------------------------------------------------------------------ state
\* ------------------------------------------------ float arithmetic
\* A float is <<n, d>>: n/d for d > 0, NaN for <<0, 0>>, +inf and -inf for
\* a positive and a negative n over 0, as numpy's float64 division gives.
FAdd(a, b) == <<a[1] * b[2] + b[1] * a[2], a[2] * b[2]>>

FSub(a, b) == FAdd(a, <<0 - b[1], b[2]>>)

FMul(a, b) == <<a[1] * b[1], a[2] * b[2]>>

FDiv(a, b) ==
    IF b[1] < 0 THEN <<0 - (a[1] * b[2]), 0 - (a[2] * b[1])>>
    ELSE <<a[1] * b[2], a[2] * b[1]>>

IsNaN(a) == a[1] = 0 /\ a[2] = 0

\* a < b; every comparison with NaN is false.
FLess(a, b) == ~IsNaN(a) /\ ~IsNaN(b) /\ a[1] * b[2] < b[1] * a[2]

\* int(x) of a finite x >= 0.
FInt(a) == a[1] \div a[2]

Half == <<1, 2>>

\* -------------------------------------------- hardware_controller.py
\* _PWM_MAX, the pwm_range of the configuration (line 50).
PWM_MAX == 4

\* Lines 87-98: the levels that mean active and inactive.
GPIOACTIVE(c) == IF c.active_low THEN 0 ELSE 1

GPIOINACTIVE(c) == IF c.active_low THEN 1 ELSE 0

PWM_ON(c) == IF c.active_low THEN 0 ELSE PWM_MAX

PWM_OFF(c) == IF c.active_low THEN PWM_MAX ELSE 0

\* What wiringpi was last asked to put on a pin.
NoWrite == [fn |-> "none", v |-> 0]

\* wiringpi.digitalWrite(_GPIO_PINS[pin], v)
digitalWrite(h, pin, v) ==
    [h EXCEPT !.out[pin] = [fn |-> "digitalWrite", v |-> v]]

\* wiringpi.softPwmWrite(_GPIO_PINS[pin], v)
softPwmWrite(h, pin, v) ==
    [h EXCEPT !.out[pin] = [fn |-> "softPwmWrite", v |-> v]]

\* Mutant of PwmBrightness: the brightness is clamped to [0, 3/2].
PwmBrightnessClampedHigher(c, brightness) ==
    LET b1 == IF IsNaN(brightness) THEN Num(0) ELSE brightness
        b2 == IF c.active_low THEN FSub(Num(1), b1) ELSE b1
        b3 == IF FLess(b2, Num(0)) THEN Num(0) ELSE b2
    IN  IF FLess(<<3, 2>>, b3) THEN <<3, 2>> ELSE b3

\* Lines 248-256 of turn_on_light: NaN becomes 0.0, active-low mode turns
\* the brightness around, then it is clamped to [0, 1].
PwmBrightness(c, brightness) ==
    LET b1 == IF IsNaN(brightness) THEN Num(0) ELSE brightness
        b2 == IF c.active_low THEN FSub(Num(1), b1) ELSE b1
        b3 == IF FLess(b2, Num(0)) THEN Num(0) ELSE b2
    IN  IF FLess(Num(1), b3) THEN Num(1) ELSE b3

\* Lines 257-263 of turn_on_light: always-off, else always-on, and then, for
\* every inverted channel, 1 - brightness.
PwmOverrides(c, pin, brightness) ==
    LET b1 == IF pin \in c.always_off THEN Num(0)
              ELSE IF pin \in c.always_on THEN Num(1)
              ELSE brightness
    IN  IF pin \in c.inverted THEN FSub(Num(1), b1) ELSE b1

\* Lines 234-274: turn_on_light(pin, use_overrides, brightness).  A binary
\* channel in always_off is not written at all.
turn_on_light(h, c, pin, use_overrides, brightness) ==
    IF h.is_pin_pwm[pin]
    THEN LET b == PwmBrightness(c, brightness)
             bo == IF use_overrides THEN PwmOverrides(c, pin, b) ELSE b
         IN  softPwmWrite(h, pin, FInt(FMul(bo, Num(PWM_MAX))))
    ELSE IF use_overrides
         THEN IF pin \notin c.always_off
              THEN IF pin \notin c.inverted
                   THEN digitalWrite(h, pin, GPIOACTIVE(c))
                   ELSE digitalWrite(h, pin, GPIOINACTIVE(c))
              ELSE h
         ELSE digitalWrite(h, pin, GPIOACTIVE(c))

\* Lines 193-218: turn_off_light(pin, use_overrides).
turn_off_light(h, c, pin, use_overrides) ==
    IF use_overrides
    THEN IF h.is_pin_pwm[pin]
         THEN turn_on_light(h, c, pin, use_overrides, Num(PWM_OFF(c)))
         ELSE IF pin \notin c.always_off
              THEN IF pin \notin c.inverted
                   THEN digitalWrite(h, pin, GPIOINACTIVE(c))
                   ELSE digitalWrite(h, pin, GPIOACTIVE(c))
              ELSE h
    ELSE IF h.is_pin_pwm[pin]
         THEN softPwmWrite(h, pin, PWM_OFF(c))
         ELSE digitalWrite(h, pin, GPIOINACTIVE(c))

\* Lines 180-190: turn_off_all_lights(use_always_onoff); each call touches
\* its own pin only.
turn_off_all_lights(h, c, use_always_onoff) ==
    [h EXCEPT !.out = [pin \in Pins |->
        turn_off_light(h, c, pin, use_always_onoff).out[pin]]]

\* Lines 221-231: turn_on_all_lights(use_always_onoff).
turn_on_all_lights(h, c, use_always_onoff) ==
    [h EXCEPT !.out = [pin \in Pins |->
        turn_on_light(h, c, pin, use_always_onoff, Num(1)).out[pin]]]

\* Lines 137-157 and 160-177: every pin is made an output (a PWM pin is
\* created with the value 0), an input.
set_all_pins_as_outputs(h) ==
    [h EXCEPT !.mode = [pin \in Pins |-> "output"],
              !.out = [pin \in Pins |->
                  IF h.is_pin_pwm[pin]
                  THEN [fn |-> "softPwmCreate", v |-> 0]
                  ELSE h.out[pin]]]

set_all_pins_as_inputs(h) == [h EXCEPT !.mode = [pin \in Pins |-> "input"]]

\* Mutant of initialize: export_pins leaves the pin modes as configured.
initialize_keeping_pin_modes(h, c) ==
    turn_off_all_lights(set_all_pins_as_outputs(h), c, FALSE)

\* Lines 321-336: initialize().  With export_pins every pin is made an
\* on/off pin first; then all pins are outputs and are turned off.
initialize(h, c) ==
    LET h1 == IF c.export_pins
              THEN [h EXCEPT !.is_pin_pwm = [pin \in Pins |-> FALSE]]
              ELSE h
    IN  turn_off_all_lights(set_all_pins_as_outputs(h1), c, FALSE)

\* Mutant of clean_up: the lights are not turned off.
clean_up_leaving_lights(h, c) == set_all_pins_as_inputs(h)

\* Lines 308-318: clean_up(); with export_pins the pins are unexported
\* after they were made inputs.
clean_up(h, c) == set_all_pins_as_inputs(turn_off_all_lights(h, c, FALSE))

\* ------------------------------------- synchronized_lights.update_lights
\* Lines 145-151: the brightness of one pin.
Brightness(matrix_pin, mean_pin, std_pin) ==
    LET b0 == FDiv(FAdd(FSub(matrix_pin, mean_pin), FMul(Half, std_pin)),
                   FMul(<<5, 4>>, std_pin))
        b1 == IF FLess(Num(1), b0) THEN Num(1) ELSE b0
    IN  IF FLess(b1, Num(0)) THEN Num(0) ELSE b1

\* Mutant of TurnsOn: an on/off pin is turned on at 1/2 already.
TurnsOnAtHalf(brightness) == ~FLess(brightness, Half)

\* Line 155: an on/off pin is turned on above 1/2 brightness.
TurnsOn(brightness) == FLess(Half, brightness)

\* Lines 153-160: one pin of update_lights, given its brightness.
DrivePin(h, c, pin, brightness) ==
    IF ~h.is_pin_pwm[pin]
    THEN IF TurnsOn(brightness)
         THEN turn_on_light(h, c, pin, TRUE, Num(1))
         ELSE turn_off_light(h, c, pin, TRUE)
    ELSE turn_on_light(h, c, pin, TRUE, brightness)

\* Lines 127-160: update_lights(matrix, mean, std).
update_lights(h, c, matrix, mean, std) ==
    [h EXCEPT !.out = [pin \in Pins |->
        DrivePin(h, c, pin,
                 Brightness(matrix[pin], mean[pin], std[pin])).out[pin]]]

\* ------------------------------------------------------------- state
\* The hardware configurations the script is played with (lines 48-57 of
\* hardware_controller.py): pin modes, active-low mode and the always-on,
\* always-off and inverted channels, with export_pins = no.
HwCfg(pwm, active_low, always_on, always_off, inverted) ==
    [pwm |-> pwm, active_low |-> active_low, always_on |-> always_on,
     always_off |-> always_off, inverted |-> inverted,
     export_pins |-> FALSE]

\* Line 58: the same configuration with export_pins = yes.
Exported(c) == [c EXCEPT !.export_pins = TRUE]

HwConfigs ==
    {HwCfg(<<FALSE, FALSE>>, FALSE, {}, {}, {}),
     HwCfg(<<TRUE, FALSE>>, TRUE, {2}, {}, {1})}

\* The pins before initialize(): is_pin_pwm as configured (lines 79-84),
\* nothing written yet.
HwInit(c) ==
    [is_pin_pwm |-> c.pwm, out |-> [pin \in Pins |-> NoWrite],
     mode |-> [pin \in Pins |-> "unset"]]

\* No driver call made yet.
NoDrv ==
    [op |-> "none", pin |-> 0, use_overrides |-> FALSE,
     brightness |-> [pin \in Pins |-> NaN]]

\* No audio sink made yet (SpecSink), no FFT object built yet (SpecFreq).
NoSink ==
    [klass |-> "none", launched |-> FALSE, proc |-> "none", kills |-> 0,
     waits |-> 0, cleanups |-> 0, raised |-> "none", writes |-> 0,
     num_channels |-> "", sample_rate |-> ""]

NoFreq ==
    [built |-> FALSE, err |-> "none", frequency_limits |-> <<>>,
     store |-> <<>>, piff |-> <<>>, chunk |-> [bin |-> 0, power |-> 0],
     sums |-> <<>>, levels |-> <<>>]

\* The play_now request has not been set during this invocation.
NoFlag == [set |-> FALSE, synced |-> FALSE, delayed |-> FALSE, written |-> 0]

\* The analysis configurations the script is run with: the stock one, one
\* with another chunk_size, one with custom_channel_frequencies given.
Configs ==
    {FFT(1024, 44100, GPIOLEN, 20, 15000, PyInt(0), PyInt(0)),
     FFT(2048, 44100, GPIOLEN, 20, 15000, PyInt(0), PyInt(0)),
     FFT(1024, 44100, GPIOLEN, 20, 15000, PyInt(0),
         PyList(<<5, 200, 15000>>))}

VARIABLES
    run,            \* which invocation of the script this is
    cfg,            \* the FFT configuration cache_song builds (lines 397-403)
    nChunks,        \* non-empty chunks the decoder yields for the song
    delay,          \* light_show_delay (line 502)
    cfgFile,        \* the song's .cfg sidecar
    syncFile,       \* the song's .sync sidecar
    statePlayNow,   \* the persisted play_now state (cm.get_state)
    w,              \* the pool worker running cache_song
    p,              \* the foreground process running play_song
    now,            \* time.time()
    tasks,          \* cache_song tasks applied to the pool and not yet joined
    written,        \* chunks written to the audio sink in this invocation
    lit,            \* the update_lights calls of this invocation, in order
    disk0,          \* history: both sidecars as the invocation found them
    lastStore,      \* history: what the last np.savetxt was given
    lastBuild,      \* history: what the last completed rebuild returned
    cmp,            \* the outcome of a compare_config call (SpecCfg)
    hwc,            \* the hardware configuration (hardware_controller.py 48-57)
    hw,             \* the pins: is_pin_pwm, last write and mode of each
    drv,            \* the driver call just made (SpecHw)
    flag,           \* history: when the play_now request was set
    snk,            \* an audio sink of audio_output.py (SpecSink)
    fq              \* an FFT object of fft.py (SpecFreq)

vars == <<run, cfg, nChunks, delay, cfgFile, syncFile, statePlayNow, w, p,
          now, tasks, written, lit, disk0, lastStore, lastBuild, cmp,
          hwc, hw, drv, flag, snk, fq>>

\* A name not yet bound (mean, std before their assignment).
Unbound == <<>>

WorkerInit ==
    [pc |-> "w_idle", cache_found |-> FALSE, k |-> 0, calls |-> 0,
     cache_matrix |-> <<>>, mean |-> Unbound, std |-> Unbound,
     err |-> "none", path |-> "none"]

PlayInit ==
    [pc |-> "p_start", play_now |-> 0, cache_matrix |-> <<>>,
     mean |-> Unbound, std |-> Unbound, row |-> 0, start_time |-> 0,
     chunk |-> 0, exc |-> "none", stream |-> "none", sink |-> "none",
     cleanups |-> 0, interrupted |-> FALSE, overrun |-> FALSE,
     hwfail |-> FALSE, status |-> "running", song |-> "none"]

\* Nothing stored by np.savetxt yet.
NoStore ==
    [valid |-> FALSE, std |-> Unbound, mean |-> Unbound, rows |-> <<>>,
     fft |-> FFT(0, 0, 0, 0, 0, PyInt(0), PyInt(0))]

NoCmp == [done |-> FALSE, result |-> "none", flipped |-> FALSE]

Init ==
    /\ run = 1
    /\ cfg \in Configs
    /\ nChunks \in 0..MaxChunks
    /\ delay \in 0..MaxDelay
    /\ cfgFile = NoCfgFile
    /\ syncFile = NoSyncFile
    /\ statePlayNow = 0
    /\ w = WorkerInit
    /\ p = PlayInit
    /\ now = 0
    /\ tasks = 0
    /\ written = 0
    /\ lit = <<>>
    /\ disk0 = [cfg |-> NoCfgFile, sync |-> NoSyncFile]
    /\ lastStore = NoStore
    /\ lastBuild = [valid |-> FALSE, run |-> 0, fft |-> cfg,
                    mean |-> Unbound, std |-> Unbound, cache_matrix |-> <<>>]
    /\ cmp = NoCmp
    /\ hwc \in HwConfigs
    /\ hw = HwInit(hwc)
    /\ drv = NoDrv
    /\ flag = NoFlag
    /\ snk = NoSink
    /\ fq = NoFreq

\* ------------------------------------------------- the worker: cache_song
\* Mutant of cache_song_hardware: the worker turns the lights on.
cache_song_turning_on(h, c) == turn_on_all_lights(h, c, FALSE)

\* The channel set after a step of cache_song: lines 389-452, and
\* load_cached_fft and the FFT methods it calls, hold no call of a
\* hardware_controller function, and a pool worker does not run the
\* atexit handler.
cache_song_hardware(h, c) == h

\* Lines 390-409: the decoder is opened, the FFT object built and the .cfg
\* compared.  Opening may fail; compare_config may end in ValueError.
W_Start ==
    /\ w.pc = "w_start"
    /\ \/ w' = [w EXCEPT !.pc = "w_raised", !.err = "OpenError"]
       \/ /\ compare_config_raises(cfg, cfgFile)
          /\ w' = [w EXCEPT !.pc = "w_raised", !.err = "ValueError"]
       \/ /\ ~compare_config_raises(cfg, cfgFile)
          /\ compare_config(cfg, cfgFile)
          /\ w' = [w EXCEPT !.pc = "w_load", !.cache_found = TRUE]
       \/ /\ ~compare_config_raises(cfg, cfgFile)
          /\ ~compare_config(cfg, cfgFile)
          /\ w' = [w EXCEPT !.pc = "w_read", !.cache_found = FALSE,
                            !.mean = [i \in Pins |-> Num(12)],
                            !.std = [i \in Pins |-> <<3, 2>>]]
    /\ hw' = cache_song_hardware(hw, hwc)
    /\ UNCHANGED <<run, cfg, nChunks, delay, cfgFile, syncFile, statePlayNow,
                   p, now, tasks, written, lit, disk0, lastStore, lastBuild,
                   cmp, hwc, drv, flag, snk, fq>>

\* Lines 412, 356-386 and 451-452: load_cached_fft.  A missing .sync raises
\* IOError in np.loadtxt; the handler logs and falls through to the return,
\* where mean is not bound: UnboundLocalError.  So does a .cfg that no
\* longer compares equal (raise IOError at line 367).
W_Load ==
    /\ w.pc = "w_load"
    /\ \/ /\ ~(syncFile.exists /\ compare_config(cfg, cfgFile))
          /\ w' = [w EXCEPT !.pc = "w_raised", !.err = "UnboundLocalError"]
       \/ /\ syncFile.exists
          /\ compare_config(cfg, cfgFile)
          /\ w' = [w EXCEPT !.pc = "w_done", !.path = "cache",
                            !.std = CachedStd(loadtxt(syncFile)),
                            !.mean = CachedMean(loadtxt(syncFile)),
                            !.cache_matrix = CachedLevels(loadtxt(syncFile))]
    /\ hw' = cache_song_hardware(hw, hwc)
    /\ UNCHANGED <<run, cfg, nChunks, delay, cfgFile, syncFile, statePlayNow,
                   p, now, tasks, written, lit, disk0, lastStore, lastBuild,
                   cmp, hwc, drv, flag, snk, fq>>

\* Lines 420-438: one readframes of the analysis pass.  A chunk is analysed
\* and stacked under the matrix; a read may raise; the empty read ends the
\* pass, the column statistics are taken and stacked on top.
W_ReadChunk ==
    /\ w.pc = "w_read"
    /\ \/ /\ w.k < nChunks
          /\ w' = [w EXCEPT !.k = @ + 1, !.calls = @ + 1,
                            !.cache_matrix =
                                Append(@, calculate_levels(cfg, w.k + 1))]
       \/ w' = [w EXCEPT !.pc = "w_raised", !.err = "DecodeError"]
       \/ /\ w.k = nChunks
          /\ w' = [w EXCEPT !.pc = "w_savetxt",
                            !.std = ColumnStds(w.cache_matrix),
                            !.mean = ColumnMeans(w.cache_matrix),
                            !.cache_matrix =
                                WithSummaryRows(ColumnMeans(w.cache_matrix),
                                                ColumnStds(w.cache_matrix),
                                                w.cache_matrix)]
    /\ hw' = cache_song_hardware(hw, hwc)
    /\ UNCHANGED <<run, cfg, nChunks, delay, cfgFile, syncFile, statePlayNow,
                   p, now, tasks, written, lit, disk0, lastStore, lastBuild,
                   cmp, hwc, drv, flag, snk, fq>>

\* Line 441: np.savetxt(cache_filename, cache_matrix).
W_SaveTxt ==
    /\ w.pc = "w_savetxt"
    /\ syncFile' = savetxt(w.cache_matrix)
    /\ w' = [w EXCEPT !.pc = "w_savecfg"]
    /\ lastStore' = [valid |-> TRUE, std |-> w.std, mean |-> w.mean,
                     rows |-> [k \in 1..w.k |-> calculate_levels(cfg, k)],
                     fft |-> cfg]
    /\ lastBuild' = [lastBuild EXCEPT !.valid = FALSE]
    /\ hw' = cache_song_hardware(hw, hwc)
    /\ UNCHANGED <<run, cfg, nChunks, delay, cfgFile, statePlayNow, p, now,
                   tasks, written, lit, disk0, cmp, hwc, drv, flag, snk,
                   fq>>

\* Lines 444-452: fft_calc.save_config(), then the decoder is closed and
\* (mean, std, cache_matrix) returned.
W_SaveConfig ==
    /\ w.pc = "w_savecfg"
    /\ cfgFile' = save_config(cfg)
    /\ w' = [w EXCEPT !.pc = "w_done", !.path = "rebuild"]
    /\ lastBuild' = [valid |-> TRUE, run |-> run, fft |-> cfg,
                     mean |-> w.mean, std |-> w.std,
                     cache_matrix |-> w.cache_matrix]
    /\ hw' = cache_song_hardware(hw, hwc)
    /\ UNCHANGED <<run, cfg, nChunks, delay, syncFile, statePlayNow, p, now,
                   tasks, written, lit, disk0, lastStore, cmp, hwc, drv,
                   flag, snk, fq>>

\* ------------------------------------------------ the foreground: play_song
\* Mutant of cache_proc_ready: the result is taken without waiting.
cache_proc_ready_without_wait(worker) == TRUE

\* Line 497: cache_proc.wait() returns once the task has finished.
cache_proc_ready(worker) == worker.pc \in {"w_done", "w_raised"}

\* Mutant of cache_proc_get: the task's exception is not raised again.
cache_proc_get_ignoring_error(proc, worker) ==
    [proc EXCEPT !.pc = "p_stream", !.mean = worker.mean, !.std = worker.std,
                 !.cache_matrix = worker.cache_matrix]

\* Line 498: cache_proc.get() hands over (mean, std, cache_matrix), or
\* raises again the exception the task ended with, which leaves play_song.
cache_proc_get(proc, worker) ==
    IF worker.pc = "w_raised"
    THEN [proc EXCEPT !.pc = "p_raised", !.exc = worker.err]
    ELSE [proc EXCEPT !.pc = "p_stream", !.mean = worker.mean,
                      !.std = worker.std,
                      !.cache_matrix = worker.cache_matrix]

\* Mutant of apply_async: the task is applied twice.
apply_async_twice(n) == n + 2

\* Line 481: pool.apply_async(cache_song, [song_filename]) adds one task.
apply_async(n) == n + 1

\* Mutant of InDelay: the comparison is turned around.
InDelayTurnedAround(t, start, d) == t - start > d

\* Line 524: the light show is still held back.
InDelay(t, start, d) == t - start < d

\* Mutant of NextRow: a row is skipped.
NextRowSkipping(r) == r + 2

\* Line 537: row += 1.
NextRow(r) == r + 1

LoopPcs == {"p_next", "p_write", "p_delay", "p_lights", "p_poll"}

\* Mutant of LoopBreaks: the loop never looks at play_now.
LoopNeverBreaks(play_now) == FALSE

\* Line 515: if play_now: break.
LoopBreaks(play_now) == play_now # 0

\* Lines 290-309: get_song takes the requested playlist entry when play_now
\* names one, else an entry chosen without regard to any request (random,
\* or song_to_play of the lineup).
get_song(play_now) == IF play_now # 0 THEN "requested" ELSE "lineup"

\* Lines 467-477: play_now is read from the persisted state, the lights are
\* initialised (hc.initialize()) and the song is chosen.
P_Start ==
    /\ p.pc = "p_start"
    /\ p' = [p EXCEPT !.pc = "p_fork", !.play_now = statePlayNow,
                      !.song = get_song(statePlayNow)]
    /\ hw' = initialize(hw, hwc)
    /\ UNCHANGED <<run, cfg, nChunks, delay, cfgFile, syncFile, statePlayNow,
                   w, now, tasks, written, lit, disk0, lastStore, lastBuild,
                   cmp, hwc, drv, flag, snk, fq>>

\* Lines 480-481: the pool of one process is made and cache_song applied.
P_Fork ==
    /\ p.pc = "p_fork"
    /\ w' = [w EXCEPT !.pc = "w_start"]
    /\ tasks' = apply_async(tasks)
    /\ p' = [p EXCEPT !.pc = "p_preshow"]
    /\ UNCHANGED <<run, cfg, nChunks, delay, cfgFile, syncFile, statePlayNow,
                   now, written, lit, disk0, lastStore, lastBuild, cmp, hwc,
                   hw, drv, flag, snk, fq>>

\* Lines 484-488: the pre-show runs unless play_now is set; when it reports
\* play_now_interrupt, play_now is read again.
P_PreShow ==
    /\ p.pc = "p_preshow"
    /\ \/ /\ p.play_now # 0
          /\ p' = [p EXCEPT !.pc = "p_reset"]
       \/ /\ p.play_now = 0
          /\ p' = [p EXCEPT !.pc = "p_reset"]
       \/ /\ p.play_now = 0
          /\ p' = [p EXCEPT !.pc = "p_reset", !.play_now = statePlayNow]
    /\ UNCHANGED <<run, cfg, nChunks, delay, cfgFile, syncFile, statePlayNow,
                   w, now, tasks, written, lit, disk0, lastStore, lastBuild,
                   cmp, hwc, hw, drv, flag, snk, fq>>

\* Lines 492-494: a set play_now is cleared, in the state and locally.
\* (The choice of the song is followed up to here: the model plays the same
\* file whichever entry was chosen.)
P_Reset ==
    /\ p.pc = "p_reset"
    /\ statePlayNow' = IF p.play_now # 0 THEN 0 ELSE statePlayNow
    /\ p' = [p EXCEPT !.pc = "p_join", !.play_now = 0, !.song = "none"]
    /\ UNCHANGED <<run, cfg, nChunks, delay, cfgFile, syncFile, w, now, tasks,
                   written, lit, disk0, lastStore, lastBuild, cmp, hwc, hw,
                   drv, flag, snk, fq>>

\* Lines 497-498: cache_proc.wait(), then get(): the worker's result, or
\* the exception it ended with, raised again here and out of play_song.
P_Join ==
    /\ p.pc = "p_join"
    /\ cache_proc_ready(w)
    /\ tasks' = tasks - 1
    /\ p' = cache_proc_get(p, w)
    /\ UNCHANGED <<run, cfg, nChunks, delay, cfgFile, syncFile, statePlayNow,
                   w, now, written, lit, disk0, lastStore, lastBuild, cmp,
                   hwc, hw, drv, flag, snk, fq>>

\* Lines 505 and 329-352: stream_music opens the decoder, which may raise.
P_Stream ==
    /\ p.pc = "p_stream"
    /\ \/ p' = [p EXCEPT !.pc = "p_raised", !.exc = "OpenError"]
       \/ p' = [p EXCEPT !.pc = "p_sink", !.stream = "open"]
    /\ UNCHANGED <<run, cfg, nChunks, delay, cfgFile, syncFile, statePlayNow,
                   w, now, tasks, written, lit, disk0, lastStore, lastBuild,
                   cmp, hwc, hw, drv, flag, snk, fq>>

\* Lines 507-513: the audio sink is made inside the with-body and outside
\* the try: when that raises, the exception leaves play_song and the
\* generator of stream_music is not resumed.  (The call passes three
\* arguments to a handler declared with four, which raises TypeError; the
\* model also follows the call that returns a sink.)  Then row = 0 and
\* start_time = time.time().
P_Sink ==
    /\ p.pc = "p_sink"
    /\ \/ p' = [p EXCEPT !.pc = "p_raised", !.exc = "SinkError"]
       \/ p' = [p EXCEPT !.pc = "p_next", !.sink = "launched", !.row = 0,
                         !.start_time = now]
    /\ UNCHANGED <<run, cfg, nChunks, delay, cfgFile, syncFile, statePlayNow,
                   w, now, tasks, written, lit, disk0, lastStore, lastBuild,
                   cmp, hwc, hw, drv, flag, snk, fq>>

\* Lines 514-516 and 344-349: the next chunk is read; the loop ends when the
\* decoder has none, breaks when play_now is set, and a failing read is an
\* exception inside the try.
P_Next ==
    /\ p.pc = "p_next"
    /\ \/ /\ p.chunk = nChunks
          /\ p' = [p EXCEPT !.pc = "p_finally"]
       \/ /\ p.chunk < nChunks
          /\ p' = [p EXCEPT !.pc = "p_except", !.exc = "DecodeError"]
       \/ /\ p.chunk < nChunks
          /\ LoopBreaks(p.play_now)
          /\ p' = [p EXCEPT !.pc = "p_finally", !.chunk = @ + 1,
                            !.interrupted = TRUE]
       \/ /\ p.chunk < nChunks
          /\ ~LoopBreaks(p.play_now)
          /\ p' = [p EXCEPT !.pc = "p_write", !.chunk = @ + 1]
    /\ UNCHANGED <<run, cfg, nChunks, delay, cfgFile, syncFile, statePlayNow,
                   w, now, tasks, written, lit, disk0, lastStore, lastBuild,
                   cmp, hwc, hw, drv, flag, snk, fq>>

\* Line 518: audio_out_stream.write(data), which may raise.
P_Write ==
    /\ p.pc = "p_write"
    /\ \/ /\ p' = [p EXCEPT !.pc = "p_except", !.exc = "WriteError"]
          /\ written' = written
       \/ /\ p' = [p EXCEPT !.pc = "p_delay"]
          /\ written' = written + 1
    /\ UNCHANGED <<run, cfg, nChunks, delay, cfgFile, syncFile, statePlayNow,
                   w, now, tasks, lit, disk0, lastStore, lastBuild, cmp, hwc,
                   hw, drv, flag, snk, fq>>

\* Lines 524-525: continue while the delay has not passed.
P_Delay ==
    /\ p.pc = "p_delay"
    /\ p' = [p EXCEPT !.pc = IF InDelay(now, p.start_time, delay)
                             THEN "p_next" ELSE "p_lights"]
    /\ UNCHANGED <<run, cfg, nChunks, delay, cfgFile, syncFile, statePlayNow,
                   w, now, tasks, written, lit, disk0, lastStore, lastBuild,
                   cmp, hwc, hw, drv, flag, snk, fq>>

\* Mutant of LightsArgs: the mean is replaced by the row just played, as
\* running statistics would.
LightsArgsRunningStats(proc) ==
    [matrix |-> proc.cache_matrix[proc.row + 1],
     mean |-> proc.cache_matrix[proc.row + 1], std |-> proc.std]

\* Lines 527-528: the arguments of update_lights(matrix, mean, std).
LightsArgs(proc) ==
    [matrix |-> proc.cache_matrix[proc.row + 1], mean |-> proc.mean,
     std |-> proc.std]

\* update_lights when the write of channel bad raises: channels before it
\* have been driven, the others are not reached (lines 142-160 hold no
\* try).
update_lights_failing(h, c, matrix, mean, std, bad) ==
    [h EXCEPT !.out = [pin \in Pins |->
        IF pin < bad THEN update_lights(h, c, matrix, mean, std).out[pin]
        ELSE h.out[pin]]]

\* Lines 527-528: cache_matrix[row] (IndexError past the last row), then
\* update_lights(matrix, mean, std), in which a write to the hardware may
\* raise.
P_Lights ==
    /\ p.pc = "p_lights"
    /\ \/ /\ p.row >= Len(p.cache_matrix)
          /\ p' = [p EXCEPT !.pc = "p_except", !.exc = "IndexError",
                            !.overrun = TRUE]
          /\ lit' = lit
          /\ hw' = hw
       \/ /\ p.row < Len(p.cache_matrix)
          /\ p' = [p EXCEPT !.pc = "p_poll"]
          /\ lit' = Append(lit, [row |-> p.row, chunk |-> p.chunk,
                                 matrix |-> LightsArgs(p).matrix,
                                 mean |-> LightsArgs(p).mean,
                                 std |-> LightsArgs(p).std])
          /\ hw' = update_lights(hw, hwc, LightsArgs(p).matrix,
                                 LightsArgs(p).mean, LightsArgs(p).std)
       \/ /\ p.row < Len(p.cache_matrix)
          /\ \E bad \in Pins :
                hw' = update_lights_failing(hw, hwc, LightsArgs(p).matrix,
                                            LightsArgs(p).mean,
                                            LightsArgs(p).std, bad)
          /\ p' = [p EXCEPT !.pc = "p_except", !.exc = "HardwareError",
                            !.hwfail = TRUE]
          /\ lit' = Append(lit, [row |-> p.row, chunk |-> p.chunk,
                                 matrix |-> LightsArgs(p).matrix,
                                 mean |-> LightsArgs(p).mean,
                                 std |-> LightsArgs(p).std])
    /\ UNCHANGED <<run, cfg, nChunks, delay, cfgFile, syncFile, statePlayNow,
                   w, now, tasks, written, disk0, lastStore, lastBuild, cmp,
                   hwc, drv, flag, snk, fq>>

\* Lines 535-537: the state is loaded again, play_now read, row advanced.
P_Poll ==
    /\ p.pc = "p_poll"
    /\ p' = [p EXCEPT !.pc = "p_next", !.play_now = statePlayNow,
                      !.row = NextRow(@)]
    /\ UNCHANGED <<run, cfg, nChunks, delay, cfgFile, syncFile, statePlayNow,
                   w, now, tasks, written, lit, disk0, lastStore, lastBuild,
                   cmp, hwc, hw, drv, flag, snk, fq>>

\* Lines 540-541: the handler calls logger.exception, and the module binds
\* logging, not logger: NameError replaces the exception being handled.
P_Except ==
    /\ p.pc = "p_except"
    /\ p' = [p EXCEPT !.pc = "p_finally", !.exc = "NameError"]
    /\ UNCHANGED <<run, cfg, nChunks, delay, cfgFile, syncFile, statePlayNow,
                   w, now, tasks, written, lit, disk0, lastStore, lastBuild,
                   cmp, hwc, hw, drv, flag, snk, fq>>

\* Mutant of audio_out_stream_cleanup: the sink is not cleaned up.
audio_out_stream_cleanup_skipped(proc) == proc

\* Line 543: audio_out_stream.cleanup().
audio_out_stream_cleanup(proc) ==
    [proc EXCEPT !.sink = "cleaned", !.cleanups = @ + 1]

\* Lines 542-543 and 353: finally, audio_out_stream.cleanup().  Without a
\* pending exception the with-block ends and stream_music closes the
\* decoder; with one, it leaves play_song and the decoder stays open.
P_Finally ==
    /\ p.pc = "p_finally"
    /\ \/ /\ p.exc = "none"
          /\ p' = [audio_out_stream_cleanup(p) EXCEPT
                       !.pc = "p_postshow", !.stream = "closed"]
       \/ /\ p.exc # "none"
          /\ p' = [audio_out_stream_cleanup(p) EXCEPT !.pc = "p_raised"]
    /\ UNCHANGED <<run, cfg, nChunks, delay, cfgFile, syncFile, statePlayNow,
                   w, now, tasks, written, lit, disk0, lastStore, lastBuild,
                   cmp, hwc, hw, drv, flag, snk, fq>>

\* Lines 546-549: the post-show, then hc.clean_up().
P_PostShow ==
    /\ p.pc = "p_postshow"
    /\ p' = [p EXCEPT !.pc = "p_done"]
    /\ hw' = clean_up(hw, hwc)
    /\ UNCHANGED <<run, cfg, nChunks, delay, cfgFile, syncFile, statePlayNow,
                   w, now, tasks, written, lit, disk0, lastStore, lastBuild,
                   cmp, hwc, drv, flag, snk, fq>>

\* Lines 582-585 and 118-123: play_song() is the last statement of the
\* script and is called outside any try.  When it returns the interpreter
\* exits with status 0; when it raised, the interpreter prints the
\* traceback and exits with status 1.  Either way atexit runs end_early,
\* which calls hc.clean_up().
Main_Exit ==
    /\ p.pc \in {"p_done", "p_raised"}
    /\ p.status = "running"
    /\ p' = [p EXCEPT !.status =
                 IF p.pc = "p_done" THEN "exit0" ELSE "traceback"]
    /\ hw' = clean_up(hw, hwc)
    /\ UNCHANGED <<run, cfg, nChunks, delay, cfgFile, syncFile, statePlayNow,
                   w, now, tasks, written, lit, disk0, lastStore, lastBuild,
                   cmp, hwc, drv, flag, snk, fq>>

\* ---------------------------------------------------------- environment
\* time.time() advances while the loop runs.
Tick ==
    /\ p.pc \in LoopPcs
    /\ now < MaxTime
    /\ now' = now + 1
    /\ UNCHANGED <<run, cfg, nChunks, delay, cfgFile, syncFile, statePlayNow,
                   w, p, tasks, written, lit, disk0, lastStore, lastBuild,
                   cmp, hwc, hw, drv, flag, snk, fq>>

\* Another process sets the persisted play_now request.
ExtPlayNow ==
    /\ p.pc \notin {"p_done", "p_raised"}
    /\ statePlayNow = 0
    /\ statePlayNow' = 1
    /\ flag' = [set |-> TRUE,
                synced |-> p.pc \in LoopPcs
                           /\ ~InDelay(now, p.start_time, delay),
                delayed |-> p.pc \in LoopPcs
                            /\ InDelay(now, p.start_time, delay),
                written |-> written]
    /\ UNCHANGED <<run, cfg, nChunks, delay, cfgFile, syncFile, w, p, now,
                   tasks, written, lit, disk0, lastStore, lastBuild, cmp, hwc,
                   hw, drv, snk, fq>>

\* The script ends (play_song returned or raised) and is started again on
\* the same disk: maybe with another configuration, a song file of another
\* length, the .sync removed in between.  The pool dies with its process.
NextRun ==
    /\ p.status # "running"
    /\ run < MaxRuns
    /\ run' = run + 1
    /\ cfg' \in Configs
    /\ nChunks' \in 0..MaxChunks
    /\ delay' \in 0..MaxDelay
    /\ \/ /\ syncFile' = syncFile
          /\ lastBuild' = lastBuild
       \/ /\ syncFile.exists
          /\ syncFile' = NoSyncFile
          /\ lastBuild' = [lastBuild EXCEPT !.valid = FALSE]
    /\ disk0' = [cfg |-> cfgFile, sync |-> syncFile']
    /\ w' = WorkerInit
    /\ p' = PlayInit
    /\ now' = 0
    /\ tasks' = 0
    /\ written' = 0
    /\ lit' = <<>>
    /\ hw' = HwInit(hwc)
    /\ flag' = NoFlag
    /\ UNCHANGED <<cfgFile, statePlayNow, lastStore, cmp, hwc, drv, snk, fq>>

Next ==
    \/ W_Start \/ W_Load \/ W_ReadChunk \/ W_SaveTxt \/ W_SaveConfig
    \/ P_Start \/ P_Fork \/ P_PreShow \/ P_Reset \/ P_Join \/ P_Stream
    \/ P_Sink \/ P_Next \/ P_Write \/ P_Delay \/ P_Lights \/ P_Poll
    \/ P_Except \/ P_Finally \/ P_PostShow \/ Main_Exit
    \/ Tick \/ ExtPlayNow \/ NextRun

Spec == Init /\ [][Next]_vars

\* ------------------------------------------- the sidecar alone (SpecCfg)
\* compare_config and save_config over configurations that differ in every
\* field: a sidecar is saved, an option of it may be missing (a sidecar not
\* written by this version), one field of the object is changed after a
\* comparison that returned True, and the sidecar is compared.
CfgSpace ==
    [chunk_size : {1024, 2048},
     sample_rate : {44100, 48000},
     num_bins : {GPIOLEN, GPIOLEN + 1},
     min_frequency : {20, 30},
     max_frequency : {15000, 16000},
     custom_channel_mapping : {PyInt(0), PyList(<<2, 1>>), PyList(<<7>>)},
     custom_channel_frequencies :
         {PyInt(0), PyList(<<5, 200, 15000>>), PyList(<<12, 300, 4500>>)},
     input_channels : {1, 2}]

CfgInit ==
    /\ run = 1
    /\ cfg \in CfgSpace
    /\ nChunks = 0
    /\ delay = 0
    /\ cfgFile = NoCfgFile
    /\ syncFile = NoSyncFile
    /\ statePlayNow = 0
    /\ w = WorkerInit
    /\ p = PlayInit
    /\ now = 0
    /\ tasks = 0
    /\ written = 0
    /\ lit = <<>>
    /\ disk0 = [cfg |-> NoCfgFile, sync |-> NoSyncFile]
    /\ lastStore = NoStore
    /\ lastBuild = [valid |-> FALSE, run |-> 0, fft |-> cfg,
                    mean |-> Unbound, std |-> Unbound, cache_matrix |-> <<>>]
    /\ cmp = NoCmp
    /\ hwc = HwCfg(<<FALSE, FALSE>>, FALSE, {}, {}, {})
    /\ hw = HwInit(hwc)
    /\ drv = NoDrv
    /\ flag = NoFlag
    /\ snk = NoSink
    /\ fq = NoFreq

\* fft_calc.save_config() on a song without a sidecar.
C_Save ==
    /\ ~cfgFile.exists
    /\ cfgFile' = save_config(cfg)
    /\ cmp' = NoCmp
    /\ UNCHANGED <<run, cfg, nChunks, delay, syncFile, statePlayNow, w, p,
                   now, tasks, written, lit, disk0, lastStore, lastBuild, hwc,
                   hw, drv, flag, snk, fq>>

\* fft_calc.compare_config(cache_filename).
C_Compare ==
    /\ ~cmp.done
    /\ cmp' = [cmp EXCEPT !.done = TRUE,
                          !.result =
                              IF compare_config_raises(cfg, cfgFile)
                              THEN "ValueError"
                              ELSE IF compare_config(cfg, cfgFile)
                              THEN "true" ELSE "false"]
    /\ UNCHANGED <<run, cfg, nChunks, delay, cfgFile, syncFile, statePlayNow,
                   w, p, now, tasks, written, lit, disk0, lastStore,
                   lastBuild, hwc, hw, drv, flag, snk, fq>>

\* The configuration is changed in exactly one field after the sidecar
\* compared equal.
C_Change ==
    /\ cmp.done
    /\ cmp.result = "true"
    /\ \E c \in CfgSpace :
          /\ Cardinality({f \in CfgFields : c[f] # cfg[f]}) = 1
          /\ cfg' = c
    /\ cmp' = [done |-> FALSE, result |-> "none", flipped |-> TRUE]
    /\ UNCHANGED <<run, nChunks, delay, cfgFile, syncFile, statePlayNow, w, p,
                   now, tasks, written, lit, disk0, lastStore, lastBuild, hwc,
                   hw, drv, flag, snk, fq>>

\* A sidecar that lacks one option of section "fft".
C_DropOption ==
    /\ cfgFile.exists
    /\ cfgFile.options = CfgFields
    /\ ~cmp.flipped
    /\ \E f \in CfgFields :
          cfgFile' = [cfgFile EXCEPT !.options = CfgFields \ {f}]
    /\ cmp' = NoCmp
    /\ UNCHANGED <<run, cfg, nChunks, delay, syncFile, statePlayNow, w, p,
                   now, tasks, written, lit, disk0, lastStore, lastBuild, hwc,
                   hw, drv, flag, snk, fq>>

CfgNext == C_Save \/ C_Compare \/ C_Change \/ C_DropOption

SpecCfg == CfgInit /\ [][CfgNext]_vars

\* --------------------------------------------- the driver alone (SpecHw)
\* The driver functions called in any order on initialised pins, under
\* every pin mode of both channels, both values of active-low mode and
\* channel 1 in any of the three override lists.
HwSpace ==
    {HwCfg(pwm, al, on, off, inv) :
        pwm \in [Pins -> BOOLEAN], al \in BOOLEAN,
        on \in SUBSET {1}, off \in SUBSET {1}, inv \in SUBSET {1}}
    \cup {Exported(HwCfg(pwm, al, on, {}, {})) :
             pwm \in [Pins -> BOOLEAN], al \in BOOLEAN, on \in SUBSET {1}}

\* One channel's (matrix[pin], mean[pin], std[pin]), with the brightness
\* update_lights computes from it: 1/2, 1/4, 3/4, above 1, below 0, 0/0,
\* 1/0 and a NaN mean.
LevelInputs ==
    {<<Num(2), <<3, 2>>, Num(4)>>, <<Num(0), <<3, 2>>, Num(8)>>,
     <<Num(5), <<3, 2>>, Num(8)>>, <<Num(2), Num(1), Half>>,
     <<Num(0), Num(12), <<3, 2>>>>, <<Num(2), Num(2), Num(0)>>,
     <<Num(2), Num(1), Num(0)>>, <<Num(0), NaN, NaN>>}

\* The brightness arguments turn_on_light is called with.
BrightnessArgs ==
    {NaN, <<0 - 1, 2>>, Num(0), <<1, 4>>, Half, <<3, 4>>, Num(1), <<3, 2>>,
     <<1, 0>>, <<0 - 1, 0>>}

HwSpecInit ==
    /\ run = 1
    /\ cfg = FFT(1024, 44100, GPIOLEN, 20, 15000, PyInt(0), PyInt(0))
    /\ nChunks = 0
    /\ delay = 0
    /\ cfgFile = NoCfgFile
    /\ syncFile = NoSyncFile
    /\ statePlayNow = 0
    /\ w = WorkerInit
    /\ p = PlayInit
    /\ now = 0
    /\ tasks = 0
    /\ written = 0
    /\ lit = <<>>
    /\ disk0 = [cfg |-> NoCfgFile, sync |-> NoSyncFile]
    /\ lastStore = NoStore
    /\ lastBuild = [valid |-> FALSE, run |-> 0, fft |-> cfg,
                    mean |-> Unbound, std |-> Unbound, cache_matrix |-> <<>>]
    /\ cmp = NoCmp
    /\ hwc \in HwSpace
    /\ hw = HwInit(hwc)
    /\ drv = NoDrv
    /\ flag = NoFlag
    /\ snk = NoSink
    /\ fq = NoFreq

Initialized == \A pin \in Pins : hw.mode[pin] = "output"

DrvCall(op, pin, use_overrides, brightness) ==
    [op |-> op, pin |-> pin, use_overrides |-> use_overrides,
     brightness |-> brightness]

\* hc.initialize()
D_Initialize ==
    /\ ~Initialized
    /\ hw' = initialize(hw, hwc)
    /\ drv' = DrvCall("initialize", 0, FALSE, NoDrv.brightness)
    /\ UNCHANGED <<run, cfg, nChunks, delay, cfgFile, syncFile, statePlayNow,
                   w, p, now, tasks, written, lit, disk0, lastStore,
                   lastBuild, cmp, hwc, flag, snk, fq>>

\* update_lights(matrix, mean, std)
D_UpdateLights ==
    /\ Initialized
    /\ \E in \in [Pins -> LevelInputs] :
          /\ hw' = update_lights(hw, hwc, [pin \in Pins |-> in[pin][1]],
                                 [pin \in Pins |-> in[pin][2]],
                                 [pin \in Pins |-> in[pin][3]])
          /\ drv' = DrvCall("update_lights", 0, TRUE,
                            [pin \in Pins |->
                                Brightness(in[pin][1], in[pin][2],
                                           in[pin][3])])
    /\ UNCHANGED <<run, cfg, nChunks, delay, cfgFile, syncFile, statePlayNow,
                   w, p, now, tasks, written, lit, disk0, lastStore,
                   lastBuild, cmp, hwc, flag, snk, fq>>

\* hc.turn_on_light(pin, use_overrides, brightness)
D_TurnOnLight ==
    /\ Initialized
    /\ \E pin \in Pins, use_overrides \in BOOLEAN, b \in BrightnessArgs :
          /\ hw' = turn_on_light(hw, hwc, pin, use_overrides, b)
          /\ drv' = DrvCall("turn_on_light", pin, use_overrides,
                            [q \in Pins |-> b])
    /\ UNCHANGED <<run, cfg, nChunks, delay, cfgFile, syncFile, statePlayNow,
                   w, p, now, tasks, written, lit, disk0, lastStore,
                   lastBuild, cmp, hwc, flag, snk, fq>>

\* hc.turn_off_light(pin, use_overrides)
D_TurnOffLight ==
    /\ Initialized
    /\ \E pin \in Pins, use_overrides \in BOOLEAN :
          /\ hw' = turn_off_light(hw, hwc, pin, use_overrides)
          /\ drv' = DrvCall("turn_off_light", pin, use_overrides,
                            NoDrv.brightness)
    /\ UNCHANGED <<run, cfg, nChunks, delay, cfgFile, syncFile, statePlayNow,
                   w, p, now, tasks, written, lit, disk0, lastStore,
                   lastBuild, cmp, hwc, flag, snk, fq>>

\* hc.turn_on_all_lights(use_always_onoff)
D_TurnOnAll ==
    /\ Initialized
    /\ \E use_overrides \in BOOLEAN :
          /\ hw' = turn_on_all_lights(hw, hwc, use_overrides)
          /\ drv' = DrvCall("turn_on_all_lights", 0, use_overrides,
                            NoDrv.brightness)
    /\ UNCHANGED <<run, cfg, nChunks, delay, cfgFile, syncFile, statePlayNow,
                   w, p, now, tasks, written, lit, disk0, lastStore,
                   lastBuild, cmp, hwc, flag, snk, fq>>

\* hc.turn_off_all_lights(use_always_onoff)
D_TurnOffAll ==
    /\ Initialized
    /\ \E use_overrides \in BOOLEAN :
          /\ hw' = turn_off_all_lights(hw, hwc, use_overrides)
          /\ drv' = DrvCall("turn_off_all_lights", 0, use_overrides,
                            NoDrv.brightness)
    /\ UNCHANGED <<run, cfg, nChunks, delay, cfgFile, syncFile, statePlayNow,
                   w, p, now, tasks, written, lit, disk0, lastStore,
                   lastBuild, cmp, hwc, flag, snk, fq>>

\* hc.clean_up()
D_CleanUp ==
    /\ Initialized
    /\ hw' = clean_up(hw, hwc)
    /\ drv' = DrvCall("clean_up", 0, FALSE, NoDrv.brightness)
    /\ UNCHANGED <<run, cfg, nChunks, delay, cfgFile, syncFile, statePlayNow,
                   w, p, now, tasks, written, lit, disk0, lastStore,
                   lastBuild, cmp, hwc, flag, snk, fq>>

HwNext ==
    \/ D_Initialize \/ D_UpdateLights \/ D_TurnOnLight \/ D_TurnOffLight
    \/ D_TurnOnAll \/ D_TurnOffAll \/ D_CleanUp

SpecHw == HwSpecInit /\ [][HwNext]_vars

\* ====================================================== audio_output.py
\* The sinks of audio_output.py, driven directly: one object is built by
\* get_audio_output_handler, written to, and cleaned up any number of
\* times, while an FM subprocess may exit on its own.

\* str() of the constructor's numeric arguments (lines 26-27).
PyStr(n) ==
    CASE n = 1 -> "1" [] n = 2 -> "2"
      [] n = 44100 -> "44100" [] n = 48000 -> "48000"

\* get_audio_output_handler: the class chosen from the options fm and
\* fm_flavor.
SinkClass(use_fm, fm_flavor) ==
    IF ~use_fm THEN "PCMOutput"
    ELSE IF fm_flavor = "pifm" THEN "PiFmOutput"
    ELSE IF fm_flavor = "pifmrds" THEN "PiFmRdsOutput"
    ELSE "PCMOutput"

\* AudioOutput.__init__ followed by the class's _launch. PCMOutput._launch
\* opens the ALSA device and leaves _launched False; PiFmOutput._launch
\* sets _launched and then reads the undefined global cfg in _launch_args,
\* so the constructor raises and no object is returned; PiFmRdsOutput
\* starts the subprocess.
AudioOutput_init(klass, num_channels, sample_rate) ==
    LET obj == [NoSink EXCEPT !.num_channels = PyStr(num_channels),
                              !.sample_rate = PyStr(sample_rate)]
    IN  CASE klass = "PCMOutput" -> [obj EXCEPT !.klass = klass]
          [] klass = "PiFmOutput" -> [NoSink EXCEPT !.raised = "NameError"]
          [] klass = "PiFmRdsOutput" ->
                 [obj EXCEPT !.klass = klass, !.launched = TRUE,
                             !.proc = "running"]

\* Popen.kill() then Popen.wait() inside the try of PiFmOutput.cleanup: a
\* kill that raises skips the wait, and the exception is logged.
KillAndWait(s, kill_raises) ==
    IF kill_raises THEN [s EXCEPT !.kills = @ + 1]
    ELSE [s EXCEPT !.kills = @ + 1, !.waits = @ + 1, !.proc = "reaped"]

\* Mutant of PiFmOutput_cleanup: no test of _launched.
PiFmOutput_cleanup_unguarded(s, kill_raises) ==
    [KillAndWait(s, kill_raises) EXCEPT !.launched = FALSE,
                                        !.cleanups = @ + 1]

\* PiFmOutput.cleanup (inherited by PiFmRdsOutput).
PiFmOutput_cleanup(s, kill_raises) ==
    IF ~s.launched THEN [s EXCEPT !.cleanups = @ + 1]
    ELSE [KillAndWait(s, kill_raises) EXCEPT !.launched = FALSE,
                                             !.cleanups = @ + 1]

\* AudioOutput.cleanup (inherited by PCMOutput).
AudioOutput_cleanup(s) == [s EXCEPT !.launched = FALSE, !.cleanups = @ + 1]

\* cleanup() dispatched on the object's class.
cleanup(s, kill_raises) ==
    IF s.klass = "PCMOutput" THEN AudioOutput_cleanup(s)
    ELSE PiFmOutput_cleanup(s, kill_raises)

\* The outcomes of os.kill on the subprocess: it succeeds on a running
\* process; on one that has exited it succeeds or raises OSError.
KillRaises(s) == IF s.proc = "running" THEN {FALSE} ELSE {FALSE, TRUE}

SinkSpace ==
    [use_fm : BOOLEAN, fm_flavor : {"pifm", "pifmrds"},
     num_channels : {1, 2}, sample_rate : {44100, 48000}]

SinkFrame ==
    UNCHANGED <<run, cfg, nChunks, delay, cfgFile, syncFile, statePlayNow,
                w, p, now, tasks, written, lit, disk0, lastStore,
                lastBuild, cmp, hwc, hw, drv, flag, fq>>

SinkInit ==
    /\ run = 1
    /\ cfg = FFT(1024, 44100, GPIOLEN, 20, 15000, PyInt(0), PyInt(0))
    /\ nChunks = 0
    /\ delay = 0
    /\ cfgFile = NoCfgFile
    /\ syncFile = NoSyncFile
    /\ statePlayNow = 0
    /\ w = WorkerInit
    /\ p = PlayInit
    /\ now = 0
    /\ tasks = 0
    /\ written = 0
    /\ lit = <<>>
    /\ disk0 = [cfg |-> NoCfgFile, sync |-> NoSyncFile]
    /\ lastStore = NoStore
    /\ lastBuild = [valid |-> FALSE, run |-> 0, fft |-> cfg,
                    mean |-> Unbound, std |-> Unbound, cache_matrix |-> <<>>]
    /\ cmp = NoCmp
    /\ hwc = HwCfg(<<FALSE, FALSE>>, FALSE, {}, {}, {})
    /\ hw = HwInit(hwc)
    /\ drv = NoDrv
    /\ flag = NoFlag
    /\ snk = NoSink
    /\ fq = NoFreq

S_Construct ==
    /\ snk.klass = "none" /\ snk.raised = "none"
    /\ \E a \in SinkSpace :
           snk' = AudioOutput_init(SinkClass(a.use_fm, a.fm_flavor),
                                   a.num_channels, a.sample_rate)
    /\ SinkFrame

S_Write ==
    /\ snk.klass # "none" /\ snk.cleanups = 0 /\ snk.writes < MaxWrites
    /\ snk' = [snk EXCEPT !.writes = @ + 1]
    /\ SinkFrame

S_ProcExit ==
    /\ snk.proc = "running"
    /\ snk' = [snk EXCEPT !.proc = "exited"]
    /\ SinkFrame

S_Cleanup ==
    /\ snk.klass # "none" /\ snk.cleanups < MaxCleanups
    /\ \E kill_raises \in KillRaises(snk) : snk' = cleanup(snk, kill_raises)
    /\ SinkFrame

SinkNext == S_Construct \/ S_Write \/ S_ProcExit \/ S_Cleanup

SpecSink == SinkInit /\ [][SinkNext]_vars

\* ================================================================= fft.py
\* The FFT object on its own: the constructor computes the channels' bands
\* from one configuration, calculate_levels then analyses chunks.
\* Frequencies are whole numbers of millihertz.

\* custom_channel_mapping != 0 and len(custom_channel_mapping) == num_bins
\* (lines 154 and 186).
MappingUsed(fft) ==
    /\ fft.custom_channel_mapping.list
    /\ Len(fft.custom_channel_mapping.v) = fft.num_bins

RECURSIVE SeqMax(_)
SeqMax(s) ==
    IF Len(s) = 1 THEN s[1]
    ELSE LET t == SeqMax(Tail(s)) IN IF s[1] > t THEN s[1] ELSE t

\* Lines 154-160.
channel_length(fft) ==
    IF MappingUsed(fft) THEN SeqMax(fft.custom_channel_mapping.v)
    ELSE fft.num_bins

\* Lines 171-172.
FreqsUsed(fft) ==
    /\ fft.custom_channel_frequencies.list
    /\ Len(fft.custom_channel_frequencies.v) >= channel_length(fft) + 1

\* 10 ** (3 / (10 * (1 / octaves_per_channel))) of lines 163-179, in
\* millionths: octaves_per_channel is log2(max / min) / channel_length, so
\* the factor is 10 ** (0.3 * log2(max / min) / channel_length).
StepPpm(min_f, max_f, length) ==
    CASE min_f = 20 /\ max_f = 15000 /\ length = 2 -> 27077715
      [] min_f = 20 /\ max_f = 15000 /\ length = 3 -> 9017261
      [] min_f = 20 /\ max_f = 15000 /\ length = 8 -> 2281145
      [] min_f = 20 /\ max_f = 40 /\ length = 2 -> 1412537
      [] min_f = 20 /\ max_f = 40 /\ length = 3 -> 1258925
      [] min_f = 20 /\ max_f = 40 /\ length = 8 -> 1090184

\* f * r / 1000000 for f in millihertz and r in millionths, multiplied in
\* parts.
MulPpm(f, r) ==
    LET fh == f \div 1000
        fl == f % 1000
        rh == r \div 1000
        rl == r % 1000
    IN  fh * rh + (fh * rl + fl * rh) \div 1000 + (fl * rl) \div 1000000

\* Lines 169 and 177-179: frequency_limits[k] of the computed boundaries.
RECURSIVE DefaultLimit(_, _)
DefaultLimit(fft, k) ==
    IF k = 0 THEN fft.min_frequency * 1000
    ELSE MulPpm(DefaultLimit(fft, k - 1),
                StepPpm(fft.min_frequency, fft.max_frequency,
                        channel_length(fft)))

\* Lines 171-179: frequency_limits[k] and len(frequency_limits).
frequency_limit(fft, k) ==
    IF FreqsUsed(fft) THEN fft.custom_channel_frequencies.v[k + 1] * 1000
    ELSE DefaultLimit(fft, k)

LimitsLen(fft) ==
    IF FreqsUsed(fft) THEN Len(fft.custom_channel_frequencies.v)
    ELSE fft.num_bins + 1

\* Lines 180-183.
frequency_store(fft) ==
    [pin \in 1..channel_length(fft) |->
        <<frequency_limit(fft, pin - 1), frequency_limit(fft, pin)>>]

\* Python's list[i]: a negative i counts from the end.
PyIndexOk(s, i) == i < Len(s) /\ i >= 0 - Len(s)

PyIndex(s, i) == IF i >= 0 THEN s[i + 1] ELSE s[Len(s) + i + 1]

\* FFT.calculate_channel_frequency: the bands of the channels, or the
\* exception it raises. A zero channel_length divides by zero at line 165;
\* frequency_limits[pin + 1] and frequency_store[mapped_channel] raise
\* IndexError past the end of their list.
calculate_channel_frequency(fft) ==
    LET mapping == fft.custom_channel_mapping.v
        Raise(e) == [err |-> e, store |-> <<>>, limits |-> <<>>]
    IN  IF channel_length(fft) = 0 THEN Raise("ZeroDivisionError")
        ELSE IF channel_length(fft) + 1 > LimitsLen(fft)
        THEN Raise("IndexError")
        ELSE IF ~MappingUsed(fft)
        THEN [err |-> "none", store |-> frequency_store(fft),
              limits |-> frequency_store(fft)]
        ELSE IF \E pin \in 1..fft.num_bins :
                    ~PyIndexOk(frequency_store(fft), mapping[pin] - 1)
        THEN Raise("IndexError")
        ELSE [err |-> "none", store |-> frequency_store(fft),
              limits |-> [pin \in 1..fft.num_bins |->
                             PyIndex(frequency_store(fft),
                                     mapping[pin] - 1)]]

\* ((f * chunk_size) / sample_rate).astype(int) of line 93.
PiffIndex(fft, f) ==
    LET fh == f \div 1000
        fl == f % 1000
        q == (fh * fft.chunk_size) \div fft.sample_rate
        rem == (fh * fft.chunk_size) % fft.sample_rate
    IN  q + (rem * 1000 + fl * fft.chunk_size) \div (fft.sample_rate * 1000)

\* Lines 91-97: the bands' index ranges, equal indices widened by one.
Piff(fft, limits) ==
    [a \in 1..Len(limits) |->
        LET lo == PiffIndex(fft, limits[a][1])
            hi == PiffIndex(fft, limits[a][2])
        IN  <<lo, IF lo = hi THEN hi + 1 ELSE hi>>]

\* Lines 100-124: the power spectrum of a chunk, chunk_size / 2 values.
\* A chunk here is silence or carries one power at one index.
Power(fft, chunk, i) ==
    IF i = chunk.bin /\ i < fft.chunk_size \div 2 THEN chunk.power ELSE 0

\* Lines 126-131: sum(power[piff[pin][0]:piff[pin][1]]).
BandSums(fft, piff, chunk) ==
    [pin \in 1..fft.num_bins |->
        IF piff[pin][1] <= chunk.bin /\ chunk.bin < piff[pin][2]
        THEN Power(fft, chunk, chunk.bin) ELSE 0]

Silence == [bin |-> 0, power |-> 0]

Chunks ==
    {Silence} \cup [bin : {0, 1, 5, 100, 400, 600}, power : {1, 10, 100}]

Mappings ==
    {PyInt(0), PyList(<<2, 1, 2>>), PyList(<<3, 3, 1>>), PyList(<<0, 1, 2>>),
     PyList(<<0 - 1, 1, 2>>), PyList(<<4, 1, 2>>), PyList(<<2, 1>>),
     PyList(<<0, 0, 0>>)}

CustomFrequencies ==
    {PyInt(0), PyList(<<20, 200, 2000, 15000>>),
     PyList(<<15000, 2000, 200, 20>>), PyList(<<20, 200, 200, 15000>>),
     PyList(<<20, 15000>>)}

FreqSpace ==
    {FFT(c, 44100, n, 20, mx, PyInt(0), PyInt(0)) :
         c \in {1024, 2048}, n \in {2, 3, 8}, mx \in {40, 15000}}
    \cup {FFT(1024, 44100, 3, 20, 15000, mp, fr) :
              mp \in Mappings, fr \in CustomFrequencies}

FreqFrame ==
    UNCHANGED <<run, cfg, nChunks, delay, cfgFile, syncFile, statePlayNow,
                w, p, now, tasks, written, lit, disk0, lastStore,
                lastBuild, cmp, hwc, hw, drv, flag, snk>>

FreqInit ==
    /\ run = 1
    /\ cfg \in FreqSpace
    /\ nChunks = 0
    /\ delay = 0
    /\ cfgFile = NoCfgFile
    /\ syncFile = NoSyncFile
    /\ statePlayNow = 0
    /\ w = WorkerInit
    /\ p = PlayInit
    /\ now = 0
    /\ tasks = 0
    /\ written = 0
    /\ lit = <<>>
    /\ disk0 = [cfg |-> NoCfgFile, sync |-> NoSyncFile]
    /\ lastStore = NoStore
    /\ lastBuild = [valid |-> FALSE, run |-> 0, fft |-> cfg,
                    mean |-> Unbound, std |-> Unbound, cache_matrix |-> <<>>]
    /\ cmp = NoCmp
    /\ hwc = HwCfg(<<FALSE, FALSE>>, FALSE, {}, {}, {})
    /\ hw = HwInit(hwc)
    /\ drv = NoDrv
    /\ flag = NoFlag
    /\ snk = NoSink
    /\ fq = NoFreq

\* FFT.__init__ (line 77): the bands are computed once.
F_Init ==
    /\ ~fq.built /\ fq.err = "none"
    /\ LET r == calculate_channel_frequency(cfg)
       IN  fq' = IF r.err # "none" THEN [fq EXCEPT !.err = r.err]
                 ELSE [fq EXCEPT !.built = TRUE,
                                 !.frequency_limits = r.limits,
                                 !.store = r.store]
    /\ FreqFrame

\* FFT.calculate_levels on one chunk; the first call computes piff.
F_CalculateLevels ==
    /\ fq.built
    /\ \E chunk \in Chunks :
           LET piff == IF Len(fq.piff) < 1
                       THEN Piff(cfg, fq.frequency_limits) ELSE fq.piff
               sums == BandSums(cfg, piff, chunk)
           IN  fq' = [fq EXCEPT !.piff = piff, !.chunk = chunk,
                                !.sums = sums, !.levels = Levels(sums)]
    /\ FreqFrame

FreqNext == F_Init \/ F_CalculateLevels

SpecFreq == FreqInit /\ [][FreqNext]_vars

\* ------------------------------------- the sidecars across runs (SpecCache)
\* cache_song alone, run again and again on the same song directory under
\* configurations that change between the runs; a run may end between the
\* write of the .sync and the write of the .cfg.

CacheInit ==
    /\ run = 1
    /\ cfg \in Configs
    /\ nChunks \in 0..MaxChunks
    /\ delay = 0
    /\ cfgFile = NoCfgFile
    /\ syncFile = NoSyncFile
    /\ statePlayNow = 0
    /\ w = [WorkerInit EXCEPT !.pc = "w_start"]
    /\ p = PlayInit
    /\ now = 0
    /\ tasks = 0
    /\ written = 0
    /\ lit = <<>>
    /\ disk0 = [cfg |-> NoCfgFile, sync |-> NoSyncFile]
    /\ lastStore = NoStore
    /\ lastBuild = [valid |-> FALSE, run |-> 0, fft |-> cfg,
                    mean |-> Unbound, std |-> Unbound, cache_matrix |-> <<>>]
    /\ cmp = NoCmp
    /\ hwc = HwCfg(<<FALSE, FALSE>>, FALSE, {}, {}, {})
    /\ hw = HwInit(hwc)
    /\ drv = NoDrv
    /\ flag = NoFlag
    /\ snk = NoSink
    /\ fq = NoFreq

\* The open() of save_config (line 293 of fft.py) raises IOError: the task
\* ends after np.savetxt wrote the .sync and before the .cfg is written.
W_SaveConfigRaises ==
    /\ w.pc = "w_savecfg"
    /\ w' = [w EXCEPT !.pc = "w_raised", !.err = "IOError"]
    /\ hw' = cache_song_hardware(hw, hwc)
    /\ UNCHANGED <<run, cfg, nChunks, delay, cfgFile, syncFile, statePlayNow,
                   p, now, tasks, written, lit, disk0, lastStore, lastBuild,
                   cmp, hwc, drv, flag, snk, fq>>

\* The script is started again and applies cache_song to the same song.
K_Rerun ==
    /\ w.pc \in {"w_done", "w_raised"}
    /\ run < MaxRuns
    /\ run' = run + 1
    /\ cfg' \in Configs
    /\ nChunks' \in 0..MaxChunks
    /\ w' = [WorkerInit EXCEPT !.pc = "w_start"]
    /\ disk0' = [cfg |-> cfgFile, sync |-> syncFile]
    /\ UNCHANGED <<delay, cfgFile, syncFile, statePlayNow, p, now, tasks,
                   written, lit, lastStore, lastBuild, cmp, hwc, hw, drv,
                   flag, snk, fq>>

CacheNext ==
    \/ W_Start \/ W_Load \/ W_ReadChunk \/ W_SaveTxt \/ W_SaveConfig
    \/ W_SaveConfigRaises \/ K_Rerun

SpecCache == CacheInit /\ [][CacheNext]_vars

\* ================================================================ claims

\* C1: in every execution of play_song the worker's result is obtained
\* before the first update_lights call: whenever play_song is at the row
\* lookup, has just updated the lights or has updated them earlier, the
\* cache_song task has finished without an exception and has been joined.
C1_JoinBeforeLights ==
    (lit # <<>> \/ p.pc \in {"p_lights", "p_poll"})
        => (w.pc = "w_done" /\ tasks = 0)

\* C1 witness: the lights were updated from a matrix the worker built
\* during this invocation.
C1_Witness == lit # <<>> /\ w.path = "rebuild" /\ w.calls > 0

\* What the sidecars were when the invocation began: the .cfg compares
\* equal and the .sync is there to be loaded.
UsableAtStart == compare_config(cfg, disk0.cfg) /\ disk0.sync.exists

\* C2: cache_song uses the disk cache only when compare_config returns
\* true and the .sync loads; in every other combination in which
\* compare_config returns and the decoder works, it runs the full analysis
\* pass and returns a freshly built (mean, std, matrix).
C2_RebuildUnlessUsable ==
    /\ w.path = "cache" => UsableAtStart
    /\ (/\ w.pc \in {"w_done", "w_raised"}
        /\ w.err \notin {"OpenError", "DecodeError", "ValueError"}
        /\ ~UsableAtStart)
           => (w.pc = "w_done" /\ w.path = "rebuild" /\ w.calls = nChunks)

\* C3: a replay of a song whose sidecars an earlier cache_song run wrote
\* under the same configuration makes no calculate_levels call and returns
\* the (mean, std, matrix) that the rebuilding run returned.
C3_ReplayIdentical ==
    (/\ w.pc = "w_done"
     /\ lastBuild.valid
     /\ lastBuild.run < run
     /\ lastBuild.fft = cfg)
        => /\ w.calls = 0
           /\ w.mean = lastBuild.mean
           /\ w.std = lastBuild.std
           /\ w.cache_matrix = lastBuild.cache_matrix

\* The value an option's text stands for, or no value at all.
StoredEquals(file, fft, f) ==
    /\ f \in file.options
    /\ IF f \in {"custom_channel_mapping", "custom_channel_frequencies"}
       THEN /\ ~ListUnreadable(file.text[f])
            /\ ParseList(file.text[f]) = fft[f]
       ELSE file.text[f] = Str(fft[f])

C5_StoreLoadRoundTrip ==
    (w.pc = "w_done" /\ w.path = "cache")
        => /\ lastStore.valid
           /\ w.std = lastStore.std
           /\ w.mean = lastStore.mean
           /\ w.cache_matrix = lastStore.rows

\* C5 witness: a cache of at least one level row, whose std and mean rows
\* differ, was loaded.
C5_Witness ==
    /\ w.pc = "w_done"
    /\ w.path = "cache"
    /\ Len(w.cache_matrix) >= 1
    /\ w.std # w.mean

\* C6: for a song without sidecars a cache_song run that returns leaves both
\* the .sync and the .cfg, and the .sync holds 2 + N rows of GPIOLEN values,
\* N the number of chunks the decoder yielded.
C6_FreshBuildFiles ==
    (w.pc = "w_done" /\ ~disk0.cfg.exists /\ ~disk0.sync.exists)
        => /\ syncFile.exists
           /\ cfgFile.exists
           /\ Len(syncFile.rows) = 2 + nChunks
           /\ \A r \in 1..Len(syncFile.rows) : Len(syncFile.rows[r]) = GPIOLEN

\* C6 witness: the run on a song of the longest length without sidecars.
C6_Witness ==
    /\ w.pc = "w_done"
    /\ ~disk0.cfg.exists
    /\ ~disk0.sync.exists
    /\ nChunks = MaxChunks

\* C7: when a read of the analysis pass raises, the task ends with that
\* error, play_song gets no further than cache_proc.get(), where the error
\* is raised again, and both sidecars are what they were: files that do not
\* compare equal to the configuration of the failed run.
C7_DecodeFailureLeavesFiles ==
    w.err = "DecodeError"
        => /\ w.pc = "w_raised"
           /\ cfgFile = disk0.cfg
           /\ syncFile = disk0.sync
           /\ ~compare_config(cfg, cfgFile)
           /\ \/ p.pc \in {"p_preshow", "p_reset", "p_join"}
              \/ p.pc = "p_raised" /\ p.exc = "DecodeError"

\* C7 witness: the pass failed after at least one chunk, over sidecars of
\* another configuration, and the error was raised again in play_song.
C7_Witness ==
    /\ w.err = "DecodeError"
    /\ w.k >= 1
    /\ disk0.cfg.exists
    /\ disk0.sync.exists
    /\ p.pc = "p_raised"

C9_DelayedWritesOnly ==
    /\ (p.pc \in LoopPcs /\ now - p.start_time < delay)
           => /\ lit = <<>>
              /\ p.row = 0
              /\ p.pc \in {"p_next", "p_delay"} => written = p.chunk
              /\ p.pc = "p_write" => written = p.chunk - 1
    /\ (lit # <<>> \/ p.pc \in {"p_lights", "p_poll"})
           => now - p.start_time >= delay

\* C9 witness: chunks were written during the delay before the first
\* update_lights call.
C9_Witness == delay > 0 /\ lit # <<>> /\ written > Len(lit)

\* C10: in every iteration past the delay the chunk is written before the
\* lights are updated, and the k-th update_lights call reads
\* cache_matrix[k-1] for the chunk after the one of the call before.
C10_RowPerChunk ==
    /\ p.pc \in {"p_lights", "p_poll"} => written = p.chunk
    /\ \A k \in 1..Len(lit) :
          /\ lit[k].row = k - 1
          /\ lit[k].matrix = p.cache_matrix[k]
          /\ lit[k].chunk <= written
          /\ k > 1 => lit[k].chunk = lit[k - 1].chunk + 1

\* C10 witness: two update_lights calls for two chunks.
C10_Witness == Len(lit) >= 2 /\ lit[2].chunk = lit[1].chunk + 1

\* C11: once a poll has read a non-zero play_now the loop is at its head
\* and leaves, so no chunk is written and no update made with play_now
\* set; and after the request was set during Synced at most one more chunk
\* is written to the sink.
C11_BreakAfterPoll ==
    /\ (p.pc \in LoopPcs /\ p.play_now # 0) => p.pc = "p_next"
    /\ p.interrupted => p.pc \in {"p_finally", "p_postshow", "p_done"}
    /\ (flag.set /\ flag.synced) => written <= flag.written + 1

\* C11 witness: the request was set during Synced, one more chunk was
\* written and the loop was left by the break.
C11_Witness ==
    p.interrupted /\ flag.set /\ flag.synced /\ written = flag.written + 1

\* C12: after the play_now request was set while the loop was in Delayed,
\* the loop stops as it does in Synced: at most one more chunk is written.
C12_InterruptInDelayed ==
    (flag.set /\ flag.delayed) => written <= flag.written + 1

\* C13: when the decoder yields more chunks than the cache matrix has rows,
\* play_song still writes every chunk to the sink and ends without an
\* exception.
C13_OverrunKeepsPlaying ==
    (p.overrun /\ p.pc \in {"p_done", "p_raised"})
        => written = nChunks /\ p.exc = "none"

\* The level a channel is left at when it is off with the overrides
\* applied: active for an always-on channel, inactive for an always-off
\* one, the inverted off level (active) for an inverted one.
OffWithOverrides(c, pin) ==
    LET on == pin \notin c.always_off
              /\ (pin \in c.always_on \/ pin \in c.inverted)
        high == IF c.active_low THEN ~on ELSE on
    IN  IF c.pwm[pin]
        THEN [fn |-> "softPwmWrite", v |-> IF high THEN PWM_MAX ELSE 0]
        ELSE [fn |-> "digitalWrite", v |-> IF high THEN 1 ELSE 0]

\* C14: when playback was cancelled by the interrupt flag and play_song has
\* finished, the sink's cleanup has been called, rows are left unconsumed
\* and every channel is off with the overrides applied.
C14_InterruptEndsOffWithOverrides ==
    (p.pc = "p_done" /\ p.interrupted)
        => /\ p.sink = "cleaned"
           /\ \A pin \in Pins : hw.out[pin] = OffWithOverrides(hwc, pin)

\* C15: after the interrupt flag was set during Synced the loop stops
\* within one chunk, and when play_song has finished the last duty value
\* written to every PWM channel is the inactive one: 0, or _PWM_MAX in
\* active-low mode.
C15_InterruptLeavesPwmOff ==
    /\ (p.interrupted /\ flag.synced) => written - flag.written \in {0, 1}
    /\ (p.pc = "p_done" /\ p.interrupted)
           => \A pin \in Pins :
                  hw.is_pin_pwm[pin]
                      => hw.out[pin] =
                             [fn |-> "softPwmWrite",
                              v |-> IF hwc.active_low THEN PWM_MAX ELSE 0]

\* C15 witness: play_song has finished after an interrupt during Synced,
\* with lights updated before it, on hardware with a PWM channel.
C15_Witness ==
    /\ p.pc = "p_done" /\ p.interrupted /\ flag.synced /\ lit # <<>>
    /\ \E pin \in Pins : hw.is_pin_pwm[pin]

\* The driver calls that apply the overrides to a channel.
AppliesOverrides(pin) ==
    /\ drv.use_overrides
    /\ \/ drv.op \in {"update_lights", "turn_on_all_lights",
                      "turn_off_all_lights"}
       \/ drv.op \in {"turn_on_light", "turn_off_light"} /\ drv.pin = pin

\* The channel is at its inactive (active) physical level.
AtLevel(pin, active) ==
    LET high == IF hwc.active_low THEN ~active ELSE active
    IN  IF hw.is_pin_pwm[pin]
        THEN hw.out[pin].v = IF high THEN PWM_MAX ELSE 0
        ELSE hw.out[pin].v = IF high THEN 1 ELSE 0

\* C16: every driver call that applies the overrides leaves an always-off
\* channel at the inactive physical level.
C16_AlwaysOffInactive ==
    \A pin \in Pins :
        (pin \in hwc.always_off /\ AppliesOverrides(pin))
            => AtLevel(pin, FALSE)

\* C17: every driver call that applies the overrides leaves an always-on
\* channel at the active physical level.
C17_AlwaysOnActive ==
    \A pin \in Pins :
        (pin \in hwc.always_on /\ pin \notin hwc.always_off
         /\ AppliesOverrides(pin))
            => AtLevel(pin, TRUE)

\* The configuration without any override.
WithoutOverrides(c) ==
    [c EXCEPT !.always_on = {}, !.always_off = {}, !.inverted = {}]

\* C18: update_lights on an inverted channel with brightness b writes what
\* it writes on the same channel not inverted with brightness 1 - b.
C18_InvertedIsOneMinus ==
    drv.op = "update_lights"
        => \A pin \in Pins :
               (pin \in hwc.inverted /\ pin \notin hwc.always_on
                /\ pin \notin hwc.always_off /\ ~IsNaN(drv.brightness[pin]))
                   => hw.out[pin] =
                          DrivePin(hw, WithoutOverrides(hwc), pin,
                                   FSub(Num(1), drv.brightness[pin])).out[pin]

\* The brightness the priority chain of the overrides gives: always-off 0,
\* else always-on 1, else inverted 1 - b, else b.
PriorityChain(c, pin, b) ==
    IF pin \in c.always_off THEN Num(0)
    ELSE IF pin \in c.always_on THEN Num(1)
    ELSE IF pin \in c.inverted THEN FSub(Num(1), b)
    ELSE b

\* C19: update_lights writes on every channel what it writes on a channel
\* without overrides for the brightness of the priority chain always-off,
\* always-on, inverted, pass through; a channel in always_off or always_on
\* is not inverted on top.
C19_OverridePriority ==
    drv.op = "update_lights"
        => \A pin \in Pins :
               ~IsNaN(drv.brightness[pin])
                   => hw.out[pin] =
                          DrivePin(hw, WithoutOverrides(hwc), pin,
                                   PriorityChain(hwc, pin,
                                       drv.brightness[pin])).out[pin]

\* C20: update_lights writes to an on/off channel without override the
\* active level (1, or 0 in active-low mode) exactly when the brightness
\* it computed is above 1/2, and the inactive level otherwise.
C20_BinaryThreshold ==
    drv.op = "update_lights"
        => \A pin \in Pins :
               (~hw.is_pin_pwm[pin]
                /\ pin \notin hwc.always_on \cup hwc.always_off
                                            \cup hwc.inverted)
                   => hw.out[pin] =
                          [fn |-> "digitalWrite",
                           v |-> IF 2 * drv.brightness[pin][1]
                                        > drv.brightness[pin][2]
                                    /\ ~IsNaN(drv.brightness[pin])
                                 THEN (IF hwc.active_low THEN 0 ELSE 1)
                                 ELSE (IF hwc.active_low THEN 1 ELSE 0)]

\* C20 witness: update_lights has driven an on/off channel without
\* override at a brightness of exactly 1/2, and it is inactive.
C20_Witness ==
    /\ drv.op = "update_lights"
    /\ ~hw.is_pin_pwm[1]
    /\ 1 \notin hwc.always_on \cup hwc.always_off \cup hwc.inverted
    /\ drv.brightness[1][2] > 0
    /\ 2 * drv.brightness[1][1] = drv.brightness[1][2]
    /\ hw.out[1] = [fn |-> "digitalWrite",
                    v |-> IF hwc.active_low THEN 1 ELSE 0]

\* The brightness b clamped to [0, 1], as a fraction with a positive
\* denominator.
Clamped01(b) ==
    IF b[2] = 0 THEN (IF b[1] > 0 THEN <<1, 1>> ELSE <<0, 1>>)
    ELSE IF b[1] < 0 THEN <<0, 1>>
    ELSE IF b[1] > b[2] THEN <<1, 1>>
    ELSE b

\* C21: every duty value written to a PWM channel lies in 0.._PWM_MAX,
\* whatever the brightness argument and the overrides; and turn_on_light
\* on a PWM channel without override writes the clamped brightness, or 1
\* minus it in active-low mode, scaled by _PWM_MAX.
C21_PwmDutyInRange ==
    /\ \A pin \in Pins :
           hw.out[pin].fn = "softPwmWrite" => hw.out[pin].v \in 0..PWM_MAX
    /\ \A pin \in Pins :
           (/\ drv.op = "turn_on_light" /\ drv.pin = pin
            /\ hw.is_pin_pwm[pin]
            /\ ~IsNaN(drv.brightness[pin])
            /\ pin \notin hwc.always_on \cup hwc.always_off
                                        \cup hwc.inverted)
               => LET cl == Clamped01(drv.brightness[pin])
                      n == IF hwc.active_low THEN cl[2] - cl[1] ELSE cl[1]
                  IN  hw.out[pin] = [fn |-> "softPwmWrite",
                                     v |-> (n * PWM_MAX) \div cl[2]]

\* C21 witness: turn_on_light was given 3/2 on a PWM channel without
\* override, active-high, and wrote _PWM_MAX.
C21_Witness ==
    /\ drv.op = "turn_on_light" /\ drv.pin = 1 /\ hw.is_pin_pwm[1]
    /\ drv.brightness[1] = <<3, 2>>
    /\ ~hwc.active_low
    /\ 1 \notin hwc.always_on \cup hwc.always_off \cup hwc.inverted
    /\ hw.out[1] = [fn |-> "softPwmWrite", v |-> PWM_MAX]

\* C22: the playback loop is left normally when the decoder has no more
\* chunks, and on every way out of the loop (exhaustion, interrupt,
\* exception) the sink's cleanup has been called exactly once.
C22_SinkCleanedOnce ==
    /\ p.sink = "launched"
           => p.cleanups = 0 /\ p.pc \in LoopPcs \cup {"p_except", "p_finally"}
    /\ p.sink = "cleaned" => p.cleanups = 1
    /\ (p.pc = "p_postshow" /\ ~p.interrupted)
           => p.chunk = nChunks /\ p.exc = "none"
    /\ (p.pc = "p_next" /\ p.chunk = nChunks /\ nChunks > 0)
           => p.exc = "none"

\* C22 witnesses: the loop was left after the last chunk was written, the
\* sink cleaned up once.
C22_Witness ==
    /\ p.pc = "p_done" /\ ~p.interrupted /\ nChunks > 0
    /\ written = nChunks /\ p.cleanups = 1

\* C24: a failure of the write to one channel inside update_lights does
\* not become an exception of the playback loop.
C24_HardwareFailureContained == p.hwfail => p.exc = "none"

\* C25: a decoder that cannot be opened (missing file, stream header
\* without the RIFF/fmt tags) does not terminate the host process.
C25_DecodeFailureKeepsHost == p.exc = "OpenError" => p.status # "traceback"

\* C30: every update_lights call of one song is given the mean and the std
\* of the precompute result, and play_song holds them unchanged.
C30_MeanStdFixed ==
    /\ \A i \in 1..Len(lit) : lit[i].mean = w.mean /\ lit[i].std = w.std
    /\ p.pc \in LoopPcs => p.mean = w.mean /\ p.std = w.std

\* C30 witness: two updates of a cached song read different rows under the
\* same mean and std.
C30_Witness ==
    /\ w.path = "cache" /\ Len(lit) >= 2
    /\ lit[1].matrix # lit[2].matrix
    /\ lit[1].mean = lit[2].mean /\ lit[1].std = lit[2].std

\* C23: cleanup of a sink may be called any number of times after the
\* launch: it never raises, it kills the subprocess at most once and waits
\* on it at most once, also when the subprocess has already exited.
C23_CleanupIdempotent ==
    /\ snk.klass # "none" => snk.raised = "none"
    /\ snk.kills <= 1 /\ snk.waits <= 1
    /\ snk.cleanups > 0 => ~snk.launched
    /\ snk.klass = "PCMOutput" => snk.kills = 0 /\ snk.proc = "none"

\* C23 witness: an FM sink whose subprocess had exited was cleaned up three
\* times and its subprocess signalled once.
C23_Witness ==
    /\ snk.klass = "PiFmRdsOutput" /\ snk.cleanups = MaxCleanups
    /\ snk.kills = 1 /\ snk.waits = 0 /\ snk.proc = "exited"

\* C26: for every configuration with max_frequency > min_frequency > 0 and
\* at least one channel, the constructed FFT object has exactly num_bins
\* bands, each with high > low, and after the first calculate_levels every
\* channel's index range [piff_low, piff_high) is non-empty.
C26_BandsNonEmpty ==
    fq.built
        => /\ Len(fq.frequency_limits) = cfg.num_bins
           /\ \A a \in 1..Len(fq.frequency_limits) :
                  fq.frequency_limits[a][2] > fq.frequency_limits[a][1]
           /\ \A a \in 1..Len(fq.piff) : fq.piff[a][1] < fq.piff[a][2]

\* C27: without custom mapping (and without custom boundaries) band 0
\* starts at min_frequency, every band's high boundary is the next band's
\* low boundary, the boundaries increase strictly, and the last band ends
\* at max_frequency (to within one hertz).
C27_BandsContiguous ==
    (fq.built /\ ~MappingUsed(cfg) /\ ~FreqsUsed(cfg))
        => LET fl == fq.frequency_limits
               n == Len(fl)
           IN  /\ fl[1][1] = cfg.min_frequency * 1000
               /\ \A a \in 1..(n - 1) : fl[a][2] = fl[a + 1][1]
               /\ \A a \in 1..n : fl[a][1] < fl[a][2]
               /\ fl[n][2] >= cfg.max_frequency * 1000 - 1000
               /\ fl[n][2] <= cfg.max_frequency * 1000 + 1000

\* C28: with a custom mapping of length num_bins, a mapping with an entry
\* outside 1..number of bands is rejected, and otherwise channel i is given
\* band mapping[i] - 1.
C28_MappingChecked ==
    (MappingUsed(cfg) /\ (fq.built \/ fq.err # "none"))
        => LET mapping == cfg.custom_channel_mapping.v
           IN  IF \E i \in 1..Len(mapping) :
                      mapping[i] \notin 1..channel_length(cfg)
               THEN ~fq.built /\ fq.err # "none"
               ELSE fq.built
                    => \A i \in 1..Len(mapping) :
                           fq.frequency_limits[i] = fq.store[mapping[i]]

\* C29: calculate_levels on an all-zero chunk returns the zero vector, one
\* entry per channel, under every configuration; no level is the logarithm
\* of a band sum that is not positive: such a band's level is 0.
C29_SilenceGivesZeros ==
    Len(fq.levels) > 0
        => /\ Len(fq.levels) = cfg.num_bins
           /\ fq.chunk.power = 0
                  => fq.levels = [i \in 1..cfg.num_bins |-> Num(0)]
           /\ \A i \in 1..Len(fq.levels) :
                  /\ fq.levels[i][2] # 0
                  /\ fq.sums[i] <= 0 => fq.levels[i] = Num(0)

\* C29 witness: an all-zero chunk was analysed into eight zero levels.
C29_Witness ==
    /\ fq.built /\ Len(fq.levels) = 8 /\ fq.chunk.power = 0
    /\ fq.levels = [i \in 1..8 |-> Num(0)]

\* C31: the channel set is written by the foreground process only: no step
\* of the cache_song worker changes it, also while the worker runs beside
\* the pre-show; it changes in steps of play_song and of the script around
\* it.
C31_WorkerNeverWrites ==
    [][(hw' # hw) => ((w' = w \/ run' # run) /\ (p' # p \/ run' # run))]_vars

\* C31 witness: the worker has analysed a chunk while play_song, the lights
\* initialised, is in the pre-show.
C31_Witness ==
    /\ w.pc = "w_read" /\ w.k > 0 /\ p.pc = "p_preshow"
    /\ \A pin \in Pins : hw.mode[pin] = "output" /\ hw.out[pin] # NoWrite

\* C34: the k-th update_lights call of play_song is given the level row of
\* the k-th analysed chunk, never the std or the mean row, whether the
\* worker rebuilt the matrix or loaded it.
C34_LevelRowsOnly ==
    \A k \in 1..Len(lit) :
        /\ lastStore.valid
        /\ k <= Len(lastStore.rows)
        /\ lit[k].matrix = lastStore.rows[k]

\* C37: the persisted play_now request is cleared only in a run whose song
\* was chosen as the requested playlist entry.
C37_ResetOnlyForRequestedSong ==
    [][(statePlayNow # 0 /\ statePlayNow' = 0) => p.song = "requested"]_vars

\* C38: when play_song has left the with-body of stream_music, normally or
\* by an exception, the decoder that stream_music opened is closed.
C38_StreamClosed ==
    (p.pc \in {"p_postshow", "p_done", "p_raised"} /\ p.stream # "none")
        => p.stream = "closed"

\* C39: after an exception inside the playback loop, its handler and the
\* sink's cleanup, play_song goes on to the post-show and hc.clean_up() and
\* returns: it is never left by an exception once the sink is cleaned up.
C39_LoopExceptionHandled ==
    p.sink = "cleaned" => p.pc # "p_raised" /\ p.status # "traceback"

\* C33: whenever the .cfg sidecar compares equal to a configuration X and
\* the .sync exists (and no rebuild is between its two writes), the matrix
\* in the .sync was computed under X.
C33_CacheCoherent ==
    \A X \in Configs :
        (/\ w.pc # "w_savecfg"
         /\ syncFile.exists
         /\ ~compare_config_raises(X, cfgFile)
         /\ compare_config(X, cfgFile))
            => lastStore.fft = X

\* The write that turns a channel off without overrides: _GPIOINACTIVE on
\* an on/off channel, _PWM_OFF on a PWM channel.
C32_OffWrite(pin) ==
    IF hw.is_pin_pwm[pin]
    THEN [fn |-> "softPwmWrite", v |-> PWM_OFF(hwc)]
    ELSE [fn |-> "digitalWrite", v |-> GPIOINACTIVE(hwc)]

\* C32: after initialize() every channel is an output whose last written
\* value is off (with export_pins every channel is an on/off channel);
\* after clean_up() every channel was written off without overrides and is
\* an input.
C32_OffAfterInitializeAndCleanUp ==
    /\ drv.op = "initialize" =>
          \A pin \in Pins :
              /\ hw.mode[pin] = "output"
              /\ hwc.export_pins => ~hw.is_pin_pwm[pin]
              /\ hw.out[pin] = C32_OffWrite(pin)
    /\ drv.op = "clean_up" =>
          \A pin \in Pins :
              /\ hw.mode[pin] = "input"
              /\ hw.out[pin] = C32_OffWrite(pin)

\* initialize() under export_pins, on a channel configured as PWM in
\* active-low mode.
C32_Witness ==
    /\ drv.op = "initialize"
    /\ hwc.export_pins /\ hwc.pwm[1] /\ hwc.active_low
    /\ hw.mode[1] = "output"
    /\ hw.out[1] = [fn |-> "digitalWrite", v |-> 1]

\* C36: on a channel in no override list, turn_off_light(pin, True) writes
\* what turn_off_light(pin, False) writes.
C36_TurnOffSameWithOverrides ==
    (/\ drv.op = "turn_off_light"
     /\ drv.use_overrides
     /\ drv.pin \notin hwc.always_on \cup hwc.always_off \cup hwc.inverted)
        => hw.out[drv.pin] =
               IF hw.is_pin_pwm[drv.pin]
               THEN [fn |-> "softPwmWrite", v |-> PWM_OFF(hwc)]
               ELSE [fn |-> "digitalWrite", v |-> GPIOINACTIVE(hwc)]

\* C35: compare_config on the sidecar save_config wrote for the same
\* configuration returns true, for every configuration.
C35_SaveThenCompare ==
    (cmp.done /\ ~cmp.flipped /\ cfgFile = save_config(cfg))
        => cmp.result = "true"

====
